---- MODULE Spec2Model ----
(***************************************************************************)
(* Twenty CRM client (src/src/client.ts): request, requestWithRetry,       *)
(* requestAllItems, searchRecords, findRecordByField and bulkOperation as  *)
(* state machines over an abstract HTTP transport, and the tool handlers   *)
(* (src/src/tools) as state machines over the client.                      *)
(*                                                                         *)
(* Every await of the code is a step boundary: a call that is waiting for  *)
(* fetch is "inflight", a call inside sleep() is "sleeping".  The          *)
(* synchronous code between two awaits is one atomic step.                 *)
(***************************************************************************)
EXTENDS Integers, Sequences, FiniteSets, TLC

VARIABLES
    call,     \* the requestWithRetry call under study (SpecRetry)
    wire,     \* the responses the transport has served, in order
    page,     \* the requestAllItems run (SpecPage)
    search,   \* the searchRecords run (SpecSearch)
    find,     \* the findRecordByField run (SpecFind)
    bulk,     \* the bulkOperation run (SpecBulk)
    delay,    \* the milliseconds of the last sleep() of `call` (-1: none yet)
    built,    \* one request() call up to its fetch (SpecRequest)
    tool,     \* one tool handler's run against the client (SpecTools)
    runs      \* two requestAllItems runs over one query mapping (SpecRuns)

vars == <<call, wire, page, search, find, bulk, delay, built, tool, runs>>

\* the value of a variable that the specification at hand does not use
Idle == [pc |-> "idle"]

----------------------------------------------------------------------------
(* Bounds of the model *)

\* largest maxRetries override tried in SpecRetry
MaxRetriesBound == 3
\* transport faults (failed attempts) allowed in one run of a composite operation
MaxFaults == 4
\* largest number of records handed to bulkOperation
MaxItems == 6
\* largest number of resource types handed to searchRecords
MaxTypes == 2
\* largest number of rows one search response holds
MaxHits == 2
\* largest dataset size enumerated exhaustively in SpecPage
MaxData == 7
\* largest explicit page limit tried in SpecPage
MaxLimit == 3
\* cap on the rounds of one requestAllItems run against a server that never ends
MaxRounds == 4
\* largest number of records handed to bulkOperation in SpecOps
MaxOpsItems == 2
\* largest number of keys in the query and body mappings of one request call
MaxKeys == 2
\* largest number of slashes at the end of the API URL a client is built from
MaxSlashes == 2
\* largest number of client instances alive at once in SpecClients
MaxClients == 2
\* largest number of request() calls made in one run of SpecClients
MaxCalls == 3
\* largest number of elements of the items argument of a bulk tool
MaxToolItems == 2

----------------------------------------------------------------------------
(* JSON payloads, as far as the client looks into them.                    *)
(* shape "null"      the JSON value null                                   *)
(*       "dataArr"   an object whose `data` is the array `rows`            *)
(*       "dataObj"   an object whose `data` is one object, rows[1]         *)
(*       "dataFalsy" an object whose `data` is null, 0, "" or false        *)
(*       "noData"    an object without `data` ({} for an empty body)       *)
(*       "bareArr"   the array `rows` itself                               *)

Payload(shape, rows) == [shape |-> shape, rows |-> rows]
NoPayload == Payload("none", <<>>)
EmptyObject == Payload("noData", <<>>)

\* a row served by the CRM: `src` names who served it, `id` which one it is
Row(src, id) == [src |-> src, id |-> id, whole |-> FALSE]
\* the response object itself, used as an item
WholeItem == [src |-> "response", id |-> 0, whole |-> TRUE]

\* reading `response.data` throws a TypeError exactly when response is null
ReadsData(p) == p.shape # "null"

\* an extraction that takes `data` only when it is an array
ItemsOfArrayDataOnly(p) ==
    IF p.shape = "dataArr" THEN p.rows ELSE <<WholeItem>>

\* const data = response.data || response;
\* const items = Array.isArray(data) ? data : [data];
ItemsOf(p) ==
    IF p.shape \in {"dataArr", "bareArr"} THEN p.rows
    ELSE IF p.shape = "dataObj" THEN <<p.rows[1]>>
    ELSE <<WholeItem>>

----------------------------------------------------------------------------
(* The transport: what one fetch() does.                                   *)
(* netcode # ""  fetch rejects (no HTTP response)                          *)
(* text          "empty", "json" (parses to `value`) or "invalid"          *)
(* transient     the response text (or the rejection's message) contains   *)
(*               one of the transient-failure indicators                   *)
(* headers       the response headers, as far as the client reads them:    *)
(*               Retry-After, absent, a count of seconds, or an HTTP date  *)
(*               given by its distance from now in milliseconds            *)

NoRetryAfter == [form |-> "none", n |-> 0]
Seconds(n) == [form |-> "seconds", n |-> n]
HttpDate(msFromNow) == [form |-> "date", n |-> msFromNow]
Headers(retryAfter) == [retryAfter |-> retryAfter]
NoHeaders == Headers(NoRetryAfter)

HttpResponse(status, text, value, transient) ==
    [netcode |-> "", status |-> status, text |-> text, value |-> value,
     transient |-> transient, headers |-> NoHeaders]
NetworkFailure(code) ==
    [netcode |-> code, status |-> 0, text |-> "empty", value |-> NoPayload,
     transient |-> TRUE, headers |-> NoHeaders]
WithRetryAfter(resp, retryAfter) ==
    [resp EXCEPT !.headers = Headers(retryAfter)]

\* await response.text(): the raw text of the body
BodyText(resp) ==
    [text |-> resp.text, value |-> resp.value, transient |-> resp.transient]
NoText == [text |-> "none", value |-> NoPayload, transient |-> FALSE]

NoResponse == HttpResponse(0, "none", NoPayload, FALSE)
OkJson(value) == HttpResponse(200, "json", value, FALSE)
OkEmpty == HttpResponse(200, "empty", NoPayload, FALSE)
OkInvalid == HttpResponse(200, "invalid", NoPayload, FALSE)
HttpError(status) == HttpResponse(status, "json", NoPayload, FALSE)

\* response.ok
ResponseOk(resp) == resp.status >= 200 /\ resp.status <= 299

----------------------------------------------------------------------------
(* Errors.  statusCode 0, code "" and response NoInfo stand for an absent   *)
(* property.  message holds what the message text is made of: the status   *)
(* it names (0: none), the raw text it embeds and the context put before   *)
(* it (ctx).                                                               *)

NoInfo == [status |-> 0, headers |-> NoHeaders]
NoMessage == [status |-> 0, body |-> NoText]

Err(kind, statusCode, code, transient, ctx) ==
    [kind |-> kind, statusCode |-> statusCode, code |-> code,
     transient |-> transient, ctx |-> ctx, response |-> NoInfo,
     message |-> NoMessage]
NoCtx == [phrase |-> "", attempts |-> 0]
NoError == Err("none", 0, "", FALSE, NoCtx)
\* reading a property of null
TypeError == Err("type", 0, "", FALSE, NoCtx)

Returned(value) == [threw |-> FALSE, value |-> value, error |-> NoError]
Threw(error) == [threw |-> TRUE, value |-> NoPayload, error |-> error]

\* const error = new Error(`Twenty CRM API error (${response.status}): ${responseText}`)
\* error.statusCode = response.status
\* error.response = { status, headers: Object.fromEntries(response.headers.entries()) }
StatusError(resp) ==
    [Err("http", resp.status, "", resp.transient, NoCtx) EXCEPT
        !.response = [status |-> resp.status, headers |-> resp.headers],
        !.message = [status |-> resp.status, body |-> BodyText(resp)]]

\* a request that reads the body without looking at response.ok
requestIgnoringStatus(resp) ==
    IF resp.netcode # ""
    THEN Threw(Err("network", 0, resp.netcode, resp.transient, NoCtx))
    ELSE IF resp.text = "empty" THEN Returned(EmptyObject)
    ELSE IF resp.text = "invalid"
    THEN Threw(Err("parse", 0, "", resp.transient, NoCtx))
    ELSE Returned(resp.value)

\* TwentyCrmClient.request, from the await of fetch on
request(resp) ==
    IF resp.netcode # ""
    THEN Threw(Err("network", 0, resp.netcode, resp.transient, NoCtx))
    ELSE IF ~ResponseOk(resp)
    THEN Threw(StatusError(resp))
    ELSE IF resp.text = "empty" THEN Returned(EmptyObject)
    ELSE IF resp.text = "invalid"
    THEN Threw(Err("parse", 0, "", resp.transient, NoCtx))
    ELSE Returned(resp.value)

----------------------------------------------------------------------------
(* Retry policy (retry.ts) *)

RetryableStatuses == {429, 502, 503, 504}
RetryableCodes == {"ECONNREFUSED", "ETIMEDOUT", "ECONNRESET", "ENOTFOUND"}

isRetryableError(error) ==
    \/ error.statusCode \in RetryableStatuses
    \/ error.code \in RetryableCodes
    \/ error.transient

DefaultMaxRetries == 3
DefaultBaseDelayMs == 1000
\* the default cap is not stated anywhere; the retry tests need it above 5000
DefaultMaxDelayMs == 30000
DEFAULT_RETRY_CONFIG ==
    [maxRetries |-> DefaultMaxRetries, baseDelayMs |-> DefaultBaseDelayMs,
     maxDelayMs |-> DefaultMaxDelayMs]

\* the jitter factors tried, in percent of the exponential delay
JitterPercents == {-25, 0, 25}

\* Math.round of x / 100, for x >= 0
RoundPercent(x) == (x + 50) \div 100

\* a delay capped before the jitter is applied
calculateDelayCapFirst(attempt, config, jitter) ==
    LET exponential == config.baseDelayMs * 2^attempt
        capped == IF exponential <= config.maxDelayMs THEN exponential
                  ELSE config.maxDelayMs
    IN  RoundPercent(capped * (100 + jitter))

\* baseDelayMs * 2^attempt, randomized by the jitter, capped at maxDelayMs,
\* rounded to the nearest millisecond
calculateDelay(attempt, config, jitter) ==
    LET exponential == config.baseDelayMs * 2^attempt
        jittered == RoundPercent(exponential * (100 + jitter))
    IN  IF jittered <= config.maxDelayMs THEN jittered ELSE config.maxDelayMs

\* the Retry-After header of error.response.headers: a count of seconds gives
\* milliseconds, an HTTP date the milliseconds until then (never negative),
\* no header gives {}
extractRateLimitInfo(error) ==
    LET h == error.response.headers.retryAfter IN
    IF h.form = "seconds" THEN [present |-> TRUE, retryAfter |-> h.n * 1000]
    ELSE IF h.form = "date"
    THEN [present |-> TRUE, retryAfter |-> IF h.n > 0 THEN h.n ELSE 0]
    ELSE [present |-> FALSE, retryAfter |-> 0]

ContextPhrase(error) ==
    IF error.statusCode = 429 THEN "Rate limit exceeded"
    ELSE IF error.statusCode = 503 THEN "Service temporarily unavailable"
    ELSE IF error.statusCode \in {502, 504} THEN "Server gateway error"
    ELSE IF error.code = "ECONNREFUSED" THEN "Connection refused"
    ELSE ""

getErrorContext(error, attempt, maxRetries) ==
    [phrase |-> ContextPhrase(error),
     attempts |-> IF attempt > 0 THEN attempt + 1 ELSE 0]

----------------------------------------------------------------------------
(* requestWithRetry as a call record.                                      *)
(* pc: "inflight" (awaiting request), "sleeping" (awaiting sleep),         *)
(*     "returned", "raised".  calls counts the fetches issued.             *)

\* config is { ...DEFAULT_RETRY_CONFIG, ...retryConfig }
Call(pc, req, config, attempt, calls, value, error) ==
    [pc |-> pc, req |-> req, config |-> config,
     maxRetries |-> config.maxRetries, attempt |-> attempt,
     calls |-> calls, value |-> value, error |-> error]

\* method, endpoint, id appended to the endpoint (0: none), body (<<>>: none)
\* and query mapping (<<>>: none)
Req(method, endpoint, id, body, qs) ==
    [method |-> method, endpoint |-> endpoint, id |-> id, body |-> body,
     qs |-> qs]
NoReq == Req("", <<>>, 0, <<>>, <<>>)
NoCall ==
    Call("none", NoReq, [DEFAULT_RETRY_CONFIG EXCEPT !.maxRetries = 0], 0, 0,
         NoPayload, NoError)

\* a loop that stops one attempt short
LoopCondOffByOne(attempt, maxRetries) == attempt < maxRetries

\* the for loop's condition
LoopCond(attempt, maxRetries) == attempt <= maxRetries

\* a retry decision that ignores the error's class
shouldRetryAnyError(error, attempt, maxRetries) == attempt < maxRetries

\* a retry decision that gives up one attempt early
shouldRetryEarlyStop(error, attempt, maxRetries) ==
    isRetryableError(error) /\ attempt < maxRetries - 1

\* const shouldRetry = isRetryableError(error) && attempt < config.maxRetries
shouldRetry(error, attempt, maxRetries) ==
    isRetryableError(error) /\ attempt < maxRetries

\* throw new Error(`Twenty CRM API error: ${context}${errorMessage}`)
\* a plain Error: the message is the context followed by error.message, and
\* no other property of the caught error is copied
WrappedError(error, attempt, maxRetries) ==
    [Err("wrapped", 0, "", error.transient,
         getErrorContext(error, attempt, maxRetries))
     EXCEPT !.message = error.message]

\* the loop head with the given attempt index: issue a request, or leave the
\* loop and throw lastError
LoopHead(c, attempt, lastError) ==
    IF LoopCond(attempt, c.maxRetries)
    THEN [c EXCEPT !.pc = "inflight", !.attempt = attempt, !.calls = @ + 1]
    ELSE [c EXCEPT !.pc = "raised", !.attempt = attempt, !.error = lastError]

\* the call up to its first await
StartCall(req, config) ==
    LoopHead(Call("none", req, config, 0, 0, NoPayload, NoError),
             0, NoError)

\* a catch block that goes back to the loop head without sleeping
OnResponseNoSleep(c, resp) ==
    LET r == request(resp) IN
    IF ~r.threw
    THEN [c EXCEPT !.pc = "returned", !.value = r.value]
    ELSE IF ~shouldRetry(r.error, c.attempt, c.maxRetries)
    THEN [c EXCEPT !.pc = "raised",
                   !.error = WrappedError(r.error, c.attempt, c.maxRetries)]
    ELSE LoopHead([c EXCEPT !.error = r.error], c.attempt + 1, r.error)

\* the awaited request settles with the transport's response
OnResponse(c, resp) ==
    LET r == request(resp) IN
    IF ~r.threw
    THEN [c EXCEPT !.pc = "returned", !.value = r.value]
    ELSE IF ~shouldRetry(r.error, c.attempt, c.maxRetries)
    THEN [c EXCEPT !.pc = "raised",
                   !.error = WrappedError(r.error, c.attempt, c.maxRetries)]
    ELSE [c EXCEPT !.pc = "sleeping", !.error = r.error]

\* rateLimitInfo.retryAfter, read as a condition: undefined and 0 are falsy
Truthy(info) == info.present /\ info.retryAfter # 0

\* const rateLimitInfo = extractRateLimitInfo(error)
\* const delay = rateLimitInfo.retryAfter || calculateDelay(attempt, config)
Delay(error, attempt, config, jitter) ==
    LET rateLimitInfo == extractRateLimitInfo(error) IN
    IF Truthy(rateLimitInfo) THEN rateLimitInfo.retryAfter
    ELSE calculateDelay(attempt, config, jitter)

\* sleep(delay) is over: attempt++ and back to the loop head
OnWake(c) == LoopHead(c, c.attempt + 1, c.error)

Settled(c) == c.pc \in {"returned", "raised"}

----------------------------------------------------------------------------
(* getResourceEndpoint: a path is the pair of "/rest" and the collection *)

KnownResources ==
    {"company", "person", "opportunity", "note", "task", "activity",
     "attachment"}

EndpointTable(resource) ==
    CASE resource = "company" -> "companies"
      [] resource = "person" -> "people"
      [] resource = "opportunity" -> "opportunities"
      [] resource = "note" -> "notes"
      [] resource = "task" -> "tasks"
      [] resource = "activity" -> "activities"
      [] resource = "attachment" -> "attachments"

getResourceEndpoint(resource) ==
    IF resource \in KnownResources
    THEN <<"/rest", EndpointTable(resource)>>
    ELSE <<"/rest", resource>>

Min(a, b) == IF a <= b THEN a ELSE b

----------------------------------------------------------------------------
(* SpecRetry: one requestWithRetry call against an arbitrary transport *)

RetryResponses ==
    {OkJson(Payload("dataObj", <<Row("crm", 1)>>)), OkEmpty, OkInvalid,
     HttpError(400), HttpError(401), HttpError(429), HttpError(500),
     HttpError(503),
     HttpResponse(400, "json", NoPayload, TRUE),
     HttpResponse(200, "invalid", NoPayload, TRUE),
     WithRetryAfter(HttpError(429), Seconds(0)),
     WithRetryAfter(HttpError(429), Seconds(5)),
     WithRetryAfter(HttpError(429), HttpDate(-60000)),
     WithRetryAfter(HttpError(503), HttpDate(2000)),
     NetworkFailure("ECONNRESET")}

\* the responses tried on a call: all of them up to the largest retry count,
\* where one of each outcome
RetryResponsesFor(m) ==
    IF m < MaxRetriesBound THEN RetryResponses
    ELSE {OkJson(Payload("dataObj", <<Row("crm", 1)>>)), HttpError(400),
          HttpError(503), WithRetryAfter(HttpError(429), Seconds(5)),
          NetworkFailure("ECONNRESET")}

\* the delay settings tried: the defaults, and a cap that the backoff reaches;
\* the retry counts tried (InitRetry) start at -1, a count the type allows
DelayOverrides ==
    {[baseDelayMs |-> DefaultBaseDelayMs, maxDelayMs |-> DefaultMaxDelayMs],
     [baseDelayMs |-> DefaultBaseDelayMs, maxDelayMs |-> 2200]}

RetryReq == Req("GET", <<"/rest", "companies">>, 0, <<>>, <<>>)

InitRetry ==
    /\ \E m \in -1..MaxRetriesBound, o \in DelayOverrides :
          call = StartCall(RetryReq,
                           [maxRetries |-> m, baseDelayMs |-> o.baseDelayMs,
                            maxDelayMs |-> o.maxDelayMs])
    /\ wire = <<>>
    /\ delay = -1 /\ tool = Idle /\ runs = Idle
    /\ page = Idle /\ search = Idle /\ find = Idle /\ bulk = Idle
    /\ built = Idle

RetryResponse ==
    /\ call.pc = "inflight"
    /\ \E resp \in RetryResponsesFor(call.maxRetries) :
          /\ call' = OnResponse(call, resp)
          /\ wire' = Append(wire, resp)
    /\ IF call'.pc = "sleeping"
       THEN \E jitter \in JitterPercents :
               delay' = Delay(call'.error, call'.attempt, call'.config, jitter)
       ELSE delay' = delay
    /\ UNCHANGED <<page, search, find, bulk, built, tool, runs>>

RetryWake ==
    /\ call.pc = "sleeping"
    /\ call' = OnWake(call)
    /\ UNCHANGED <<wire, page, search, find, bulk, delay, built, tool, runs>>

NextRetry == RetryResponse \/ RetryWake

SpecRetry == InitRetry /\ [][NextRetry]_vars

\* what request() made of the i-th response served
Outcome(i) == request(wire[i])
FailedRetryably(i) == Outcome(i).threw /\ isRetryableError(Outcome(i).error)
FailedFatally(i) == Outcome(i).threw /\ ~isRetryableError(Outcome(i).error)

\* C1: a requestWithRetry call with maxRetries = m makes at most m+1 HTTP
\* attempts; when every attempt fails with a retryable error it ends by
\* raising after exactly m+1 attempts.
C1_AttemptBound ==
    /\ call.calls <= call.maxRetries + 1
    /\ Len(wire) <= call.calls
    /\ (Settled(call) /\ \A i \in DOMAIN wire : FailedRetryably(i))
          => (call.pc = "raised" /\ call.calls = call.maxRetries + 1
              /\ Len(wire) = call.maxRetries + 1)

C1_Witness ==
    /\ call.maxRetries = 2 /\ call.pc = "raised" /\ call.calls = 3
    /\ wire = <<HttpError(503), HttpError(503), HttpError(503)>>

\* C2: an attempt that fails with a non-retryable error is the last thing
\* the call does: the call has raised, no later attempt was issued and the
\* call is not in a backoff wait, however many retries remain.
C2_FatalErrorRaisesAtOnce ==
    \A i \in DOMAIN wire :
        FailedFatally(i) =>
            (i = Len(wire) /\ call.pc = "raised" /\ call.calls = i)

C2_Witness ==
    /\ call.maxRetries = 3 /\ call.pc = "raised" /\ call.calls = 1
    /\ wire = <<HttpError(400)>>

\* C3: after an attempt that fails retryably while attempts remain, the call
\* waits and then issues the next attempt; a successful attempt is the last
\* one, and the call returns that attempt's parsed body.
C3_RetryThenFirstSuccess ==
    \A i \in DOMAIN wire :
        /\ (FailedRetryably(i) /\ i - 1 < call.maxRetries) =>
              \/ i = Len(wire) /\ call.pc = "sleeping" /\ call.calls = i
              \/ call.calls >= i + 1
        /\ ~Outcome(i).threw =>
              (i = Len(wire) /\ call.pc = "returned" /\ call.calls = i
               /\ call.value = Outcome(i).value)

C3_Witness ==
    /\ call.pc = "returned" /\ call.calls = 2
    /\ wire = <<HttpError(429), OkJson(Payload("dataObj", <<Row("crm", 1)>>))>>
    /\ call.value = Payload("dataObj", <<Row("crm", 1)>>)

\* the response to the latest attempt
LastResponse == wire[Len(wire)]

\* a response with a status outside 2xx
NonOk(resp) == resp.netcode = "" /\ ~ResponseOk(resp)

\* C12: while requestWithRetry waits before its next attempt, the wait is
\* the rate-limit wait of the failed response's Retry-After header (seconds
\* x 1000, or the milliseconds until the date, 0 for a date in the past),
\* also for a header of 0 seconds; it is a computed exponential backoff only
\* when the header is absent.
C12_WaitIsRetryAfter ==
    call.pc = "sleeping" =>
       LET h == LastResponse.headers.retryAfter IN
       CASE h.form = "seconds" -> delay = h.n * 1000
         [] h.form = "date" -> delay = (IF h.n > 0 THEN h.n ELSE 0)
         [] OTHER -> \E jitter \in JitterPercents :
                        delay = calculateDelay(call.attempt, call.config, jitter)

\* C13: when requestWithRetry gives up after a non-2xx response, the error
\* it raises still carries that response's status code and headers snapshot,
\* and its message is the message of request's error behind the context.
C13_RaisedErrorKeepsStatus ==
    (call.pc = "raised" /\ wire # <<>> /\ NonOk(LastResponse)) =>
       /\ call.error.statusCode = LastResponse.status
       /\ call.error.response =
             [status |-> LastResponse.status, headers |-> LastResponse.headers]
       /\ call.error.message = request(LastResponse).error.message

\* C14: a non-2xx response whose status is not 429, 502, 503 or 504 is the
\* last attempt of its call, whatever its body text holds: the call raises
\* on it and sends nothing more.
C14_OtherStatusEndsTheCall ==
    \A i \in DOMAIN wire :
       (NonOk(wire[i]) /\ wire[i].status \notin {429, 502, 503, 504}) =>
          i = Len(wire) /\ call.pc = "raised" /\ call.calls = i

\* C15: a 2xx response with a non-empty body that does not parse is the last
\* attempt of its call, whatever the parser's message holds: the call raises
\* on it and sends nothing more, so a call that meets it first makes exactly
\* one attempt.
C15_ParseFailureEndsTheCall ==
    \A i \in DOMAIN wire :
       (ResponseOk(wire[i]) /\ wire[i].netcode = "" /\ wire[i].text = "invalid")
          => i = Len(wire) /\ call.pc = "raised" /\ call.calls = i

\* C20: for every response with a status outside 2xx, request raises an
\* error that carries the response's status code and a snapshot of its
\* headers, and whose message holds the status code and the raw body text;
\* no value is returned for such a response.
C20_NonOkResponseRaises ==
    /\ \A i \in DOMAIN wire :
          NonOk(wire[i]) =>
             /\ Outcome(i).threw /\ Outcome(i).value = NoPayload
             /\ Outcome(i).error.statusCode = wire[i].status
             /\ Outcome(i).error.response =
                   [status |-> wire[i].status, headers |-> wire[i].headers]
             /\ Outcome(i).error.message =
                   [status |-> wire[i].status, body |-> BodyText(wire[i])]
    /\ call.pc = "returned" => ~NonOk(LastResponse)
    /\ (call.pc = "sleeping" /\ NonOk(LastResponse)) =>
          call.error = Outcome(Len(wire)).error

C20_Witness ==
    /\ call.pc = "sleeping"
    /\ wire = <<WithRetryAfter(HttpError(429), Seconds(5))>>
    /\ call.error.statusCode = 429
    /\ call.error.response = [status |-> 429, headers |-> Headers(Seconds(5))]
    /\ call.error.message.status = 429

\* C23: of the errors request raises, isRetryableError holds for every one
\* whose status is 429, 502, 503 or 504, whose code is ECONNREFUSED,
\* ETIMEDOUT, ECONNRESET or ENOTFOUND, or whose message contains a
\* transient-failure indicator; it fails for every one whose status is 400,
\* 401, 403, 404 or 422 and for every one with none of these marks.
C23_RetryableClasses ==
    \A i \in DOMAIN wire :
       Outcome(i).threw =>
          LET error == Outcome(i).error
              marked == \/ error.statusCode \in {429, 502, 503, 504}
                        \/ error.code \in {"ECONNREFUSED", "ETIMEDOUT",
                                           "ECONNRESET", "ENOTFOUND"}
                        \/ error.transient IN
          /\ marked => isRetryableError(error)
          /\ error.statusCode \in {400, 401, 403, 404, 422}
                => ~isRetryableError(error)
          /\ ~marked => ~isRetryableError(error)

\* the backoff of attempt n under a configuration lies within its bounds
DelayInBounds(d, n, config) ==
    LET exponential == config.baseDelayMs * 2^n IN
    /\ d \in Nat
    /\ d <= config.maxDelayMs
    /\ exponential < config.maxDelayMs =>
          4 * d >= 3 * exponential /\ 4 * d <= 5 * exponential

\* C24: for every attempt index n and retry configuration,
\* calculateDelay(n, config) is a whole number of milliseconds, is at most
\* config.maxDelayMs, and lies within 25% of baseDelayMs * 2^n when that is
\* below the cap (750..1250, 1500..2500, 3000..5000 for n = 0, 1, 2 with the
\* defaults); the backoff the call sleeps for is such a delay.
C24_DelayBounds ==
    call.pc = "sleeping" =>
       /\ \A jitter \in JitterPercents :
             LET d == calculateDelay(call.attempt, call.config, jitter) IN
             /\ DelayInBounds(d, call.attempt, call.config)
             /\ call.config.maxDelayMs = DefaultMaxDelayMs =>
                   CASE call.attempt = 0 -> d >= 750 /\ d <= 1250
                     [] call.attempt = 1 -> d >= 1500 /\ d <= 2500
                     [] call.attempt = 2 -> d >= 3000 /\ d <= 5000
                     [] OTHER -> TRUE
       /\ ~Truthy(extractRateLimitInfo(call.error)) =>
             DelayInBounds(delay, call.attempt, call.config)

C24_Witness ==
    /\ call.pc = "sleeping" /\ call.attempt = 1
    /\ call.config.maxDelayMs = 2200
    /\ wire = <<HttpError(503), HttpError(503)>>
    /\ delay = 2200

\* the HTTP attempts of the call that were issued and are not answered yet
AttemptsInFlight == call.calls - Len(wire)

OneAttemptAtATime ==
    /\ AttemptsInFlight = (IF call.pc = "inflight" THEN 1 ELSE 0)
    /\ call.pc = "inflight" => \A i \in DOMAIN wire : Outcome(i).threw
    /\ call.pc = "sleeping" => Outcome(Len(wire)).threw

\* a step that issues an attempt is the end of a backoff wait that followed
\* a failed attempt
IssuesAfterWait ==
    call'.calls # call.calls =>
        /\ call.pc = "sleeping" /\ call'.pc = "inflight"
        /\ call'.calls = call.calls + 1
        /\ call'.attempt = call.attempt + 1
        /\ wire' = wire /\ Outcome(Len(wire)).threw

\* C28: one requestWithRetry call has at most one HTTP attempt in flight at
\* any instant, and attempt k+1 is issued only by the step that ends the
\* wait that followed the failure of attempt k.
C28_AttemptsSequential == [](OneAttemptAtATime) /\ [][IssuesAfterWait]_vars

C28_Witness ==
    /\ call.pc = "inflight" /\ call.attempt = 2 /\ call.calls = 3
    /\ Len(wire) = 2

\* C37: every wait between two attempts of one requestWithRetry call is at
\* most config.maxDelayMs, also when the failed response carries a
\* Retry-After header.
C37_WaitWithinMaxDelay ==
    call.pc = "sleeping" => delay <= call.config.maxDelayMs

\* C38: whatever retry configuration the caller passes, requestWithRetry has
\* made at least one HTTP attempt when it returns or raises, and what it
\* raises is an error describing the last failed attempt, never an unset
\* lastError.
C38_AttemptBeforeSettling ==
    Settled(call) =>
        /\ call.calls >= 1
        /\ call.pc = "raised" =>
              /\ call.error # NoError
              /\ wire # <<>>
              /\ call.error.message = Outcome(Len(wire)).error.message

----------------------------------------------------------------------------
(* SpecBulk: bulkOperation.  wire[n] is the last response served to a      *)
(* request made for the n-th record.                                       *)
(* bulk.i is the loop index (0-based start of the current batch),          *)
(* bulk.batch the requestWithRetry calls of the current batch's records,   *)
(* bulk.results the results pushed so far, bulk.faults the failed          *)
(* responses served so far.                                                *)

concurrencyLimit == 5

Item(k) == [id |-> k, name |-> k]

\* an update body that still holds the id
WithId(item) == item

\* const updateData = { ...item }; delete updateData.id
WithoutId(item) == [name |-> item.name]

\* the request one record gives rise to
BulkReq(operation, endpoint, item) ==
    IF operation = "create" THEN Req("POST", endpoint, 0, <<item>>, <<>>)
    ELSE IF operation = "update"
    THEN Req("PUT", endpoint, item.id, <<WithoutId(item)>>, <<>>)
    ELSE Req("DELETE", endpoint, item.id, <<>>, <<>>)

\* a slice that forgets its end
BatchSliceNoEnd(items, i) == SubSeq(items, i + 1, Len(items))

\* items.slice(i, i + concurrencyLimit), i 0-based
BatchSlice(items, i) ==
    SubSeq(items, i + 1, Min(i + concurrencyLimit, Len(items)))

\* the promise of one record's async arrow function, given its call
Promise(state, result) == [state |-> state, result |-> result]
Success(c) ==
    [success |-> TRUE, data |-> c.value, error |-> NoError, item |-> <<>>]
\* a catch that reports the record as done
FailureAsSuccess(c, item) ==
    [success |-> TRUE, data |-> NoPayload, error |-> NoError, item |-> <<>>]
\* catch (error): { success: false, error: error.message, item }
Failure(c, item) ==
    [success |-> FALSE, data |-> NoPayload, error |-> c.error,
     item |-> <<item>>]

\* an arrow function without the try/catch
ItemPromiseNoCatch(item, c) ==
    IF c.pc = "returned" THEN Promise("fulfilled", Success(c))
    ELSE IF c.pc = "raised" THEN Promise("rejected", Failure(c, item))
    ELSE Promise("pending", Failure(c, item))

ItemPromise(item, c) ==
    IF c.pc = "returned" THEN Promise("fulfilled", Success(c))
    ELSE IF c.pc = "raised" THEN Promise("fulfilled", Failure(c, item))
    ELSE Promise("pending", Failure(c, item))

BatchItems(b) == BatchSlice(b.items, b.i)
BatchPromises(b) ==
    [k \in DOMAIN b.batch |-> ItemPromise(BatchItems(b)[k], b.batch[k])]

\* an update branch that deletes the id from the record itself
UpdatedInPlace(operation, item) ==
    IF operation = "update" THEN WithoutId(item) ELSE item

\* the record of the caller's list once its arrow function has run to its
\* await: every branch leaves it as it was (update deletes the id from
\* the copy { ...item })
AfterBranch(operation, item) == item

\* batch.map(async (item) => ...): every record's call runs to its first await
StartBatch(b, i) ==
    LET batch == BatchSlice(b.items, i)
        endpoint == getResourceEndpoint(b.resource) IN
    [b EXCEPT !.i = i,
              !.items = [n \in DOMAIN b.items |->
                            IF n > i /\ n <= i + Len(batch)
                            THEN AfterBranch(b.operation, b.items[n])
                            ELSE b.items[n]],
              !.batch = [k \in DOMAIN batch |->
                            StartCall(BulkReq(b.operation, endpoint, batch[k]),
                                      DEFAULT_RETRY_CONFIG)]]

\* the for loop's head with loop index i
BulkLoop(b, i) ==
    IF i < Len(b.items) THEN StartBatch(b, i)
    ELSE [b EXCEPT !.pc = "returned", !.i = i, !.batch = <<>>]

\* a loop that goes on as soon as one promise of the batch has settled
AfterSettleAny(b) ==
    LET ps == BatchPromises(b) IN
    IF \A k \in DOMAIN ps : ps[k].state = "pending" THEN b
    ELSE BulkLoop([b EXCEPT !.results =
                       @ \o [k \in DOMAIN ps |-> ps[k].result]],
                  b.i + concurrencyLimit)

\* await Promise.all(promises) and what follows it: nothing while a promise is
\* pending; the call raises when one is rejected; otherwise the batch's
\* results are pushed in the batch's order and the loop goes on
AfterSettle(b) ==
    LET ps == BatchPromises(b) IN
    IF \E k \in DOMAIN ps : ps[k].state = "rejected"
    THEN [b EXCEPT !.pc = "raised"]
    ELSE IF \E k \in DOMAIN ps : ps[k].state = "pending" THEN b
    ELSE BulkLoop([b EXCEPT !.results =
                       @ \o [k \in DOMAIN ps |-> ps[k].result]],
                  b.i + concurrencyLimit)

\* who a request is about: the id in its path, or the record in its body
Subject(req) == IF req.id # 0 THEN req.id ELSE req.body[1].name

\* the CRM's answers to a request: the stored record, or a failure
Echo(req) == OkJson(Payload("dataObj", <<Row(req.endpoint[2], Subject(req))>>))
FaultResponses == {HttpError(400), HttpError(503)}

Operations == {"create", "update", "delete"}

\* the operations tried on a list of n records: every operation on a list
\* shorter than a batch, update on a full batch and beyond
OperationsFor(n) ==
    IF n < concurrencyLimit THEN Operations ELSE {"update"}

InitBulk ==
    /\ \E n \in 0..MaxItems : \E operation \in OperationsFor(n) :
          bulk = BulkLoop([pc |-> "running", operation |-> operation,
                           resource |-> "company",
                           items |-> [k \in 1..n |-> Item(k)],
                           i |-> 0, batch |-> <<>>, results |-> <<>>,
                           faults |-> 0], 0)
    /\ call = NoCall
    /\ wire = [k \in 1..Len(bulk.items) |-> NoResponse]
    /\ page = Idle /\ search = Idle /\ find = Idle
    /\ delay = -1 /\ tool = Idle /\ runs = Idle /\ built = Idle

\* the request of the k-th record of the batch is answered
BulkResponse ==
    /\ bulk.pc = "running"
    /\ \E k \in DOMAIN bulk.batch :
          /\ bulk.batch[k].pc = "inflight"
          /\ \/ /\ bulk' = AfterSettle([bulk EXCEPT !.batch[k] =
                               OnResponse(@, Echo(@.req))])
                /\ wire' = [wire EXCEPT ![bulk.i + k] =
                               Echo(bulk.batch[k].req)]
             \/ /\ bulk.faults < MaxFaults
                /\ \E resp \in FaultResponses :
                      /\ bulk' = AfterSettle([bulk EXCEPT
                                     !.batch[k] = OnResponse(@, resp),
                                     !.faults = @ + 1])
                      /\ wire' = [wire EXCEPT ![bulk.i + k] = resp]
    /\ UNCHANGED <<call, page, search, find, delay, built, tool, runs>>

\* the backoff wait of the k-th record of the batch is over
BulkWake ==
    /\ bulk.pc = "running"
    /\ \E k \in DOMAIN bulk.batch :
          /\ bulk.batch[k].pc = "sleeping"
          /\ bulk' = AfterSettle([bulk EXCEPT !.batch[k] = OnWake(@)])
    /\ UNCHANGED <<call, wire, page, search, find, delay, built, tool, runs>>

NextBulk == BulkResponse \/ BulkWake

SpecBulk == InitBulk /\ [][NextBulk]_vars

InFlight(calls) == Cardinality({k \in DOMAIN calls : calls[k].pc = "inflight"})

\* C4: bulkOperation never raises; it returns one result per input record,
\* result n being decided by the last response served for record n alone:
\* {success: true, data: that response's body} when it was a success, and
\* {success: false, error, item: record n} when it was a failure.
C4_OneResultPerRecord ==
    /\ bulk.pc # "raised"
    /\ Len(bulk.results) =
          (IF bulk.pc = "returned" THEN Len(bulk.items) ELSE bulk.i)
    /\ \A n \in DOMAIN bulk.results :
          LET r == bulk.results[n]
              last == request(wire[n]) IN
          IF last.threw
          THEN /\ ~r.success /\ r.item = <<bulk.items[n]>>
               /\ r.error.kind = "wrapped"
               /\ r.error.ctx.phrase = ContextPhrase(last.error)
          ELSE /\ r.success /\ r.data = last.value
               /\ r.data.rows = <<Row("companies", bulk.items[n].id)>>

C4_Witness ==
    /\ bulk.pc = "returned" /\ Len(bulk.items) = 6 /\ Len(bulk.results) = 6
    /\ ~bulk.results[3].success /\ bulk.results[3].item = <<Item(3)>>
    /\ bulk.results[3].error.ctx.attempts = 4
    /\ \A n \in {1, 2, 4, 5, 6} : bulk.results[n].success

\* C5: at every instant of a bulkOperation call at most 5 of its HTTP calls
\* are in flight.
C5_AtMostFiveInFlight == InFlight(bulk.batch) <= 5

C5_Witness ==
    /\ Len(bulk.items) = 6 /\ bulk.i = 0 /\ InFlight(bulk.batch) = 5
    /\ \E k \in DOMAIN bulk.batch : bulk.batch[k].attempt = 2

\* C21: every request of bulkOperation is the one its record and the
\* operation call for: create, a POST to the resource endpoint with the
\* record as body; update, a PUT to endpoint/id with the record less its id
\* field as body; delete, a DELETE to endpoint/id without a body.
C21_RequestPerOperation ==
    \A k \in DOMAIN bulk.batch :
       LET item == bulk.items[bulk.i + k]
           req == bulk.batch[k].req IN
       /\ req.endpoint = <<"/rest", "companies">> /\ req.qs = <<>>
       /\ bulk.batch[k].calls >= 1
       /\ CASE bulk.operation = "create" ->
                  req.method = "POST" /\ req.id = 0 /\ req.body = <<item>>
            [] bulk.operation = "update" ->
                  /\ req.method = "PUT" /\ req.id = item.id
                  /\ Len(req.body) = 1
                  /\ "id" \notin DOMAIN req.body[1]
                  /\ \A f \in DOMAIN item \ {"id"} : req.body[1][f] = item[f]
            [] bulk.operation = "delete" ->
                  req.method = "DELETE" /\ req.id = item.id /\ req.body = <<>>

C21_Witness ==
    /\ bulk.pc = "running" /\ bulk.operation = "update" /\ bulk.i = 5
    /\ bulk.batch[1].req.method = "PUT" /\ bulk.batch[1].req.id = 6
    /\ bulk.batch[1].req.body = <<[name |-> 6]>>

\* the records of the current batch whose call has not reached its result
Unfinished(b) == {k \in DOMAIN b.batch : ~Settled(b.batch[k])}

\* while a batch runs, every earlier record has its result, every record of
\* the batch has had its first attempt issued, and no later record has been
\* served a response
BatchIsolated ==
    bulk.pc = "running" =>
        /\ Len(bulk.results) = bulk.i
        /\ Len(bulk.batch) = Min(concurrencyLimit, Len(bulk.items) - bulk.i)
        /\ \A k \in DOMAIN bulk.batch : bulk.batch[k].calls >= 1
        /\ \A n \in DOMAIN bulk.items :
              n > bulk.i + Len(bulk.batch) => wire[n] = NoResponse

\* the step that issues the requests of the next batch is the one in which
\* the last unfinished record of the current batch reaches its result, and
\* it issues the first attempt of every record of the next batch at once
NextBatchAfterFinal ==
    bulk'.i # bulk.i =>
        /\ bulk'.i = bulk.i + concurrencyLimit
        /\ Cardinality(Unfinished(bulk)) = 1
        /\ Len(bulk'.results) = bulk.i + Len(bulk.batch)
        /\ \A k \in DOMAIN bulk'.batch :
              /\ bulk'.batch[k].pc = "inflight"
              /\ bulk'.batch[k].calls = 1 /\ bulk'.batch[k].attempt = 0

\* C29: bulkOperation issues no request for a record of the next batch until
\* every record of the current batch has its final result, and it issues the
\* first attempt of every record of a batch in one step, before it awaits
\* any of them.
C29_BatchesSequential == [](BatchIsolated) /\ [][NextBatchAfterFinal]_vars

C29_Witness ==
    /\ bulk.pc = "running" /\ Len(bulk.items) = 6 /\ bulk.i = 5
    /\ bulk.batch[1].pc = "inflight" /\ bulk.batch[1].calls = 1
    /\ ~bulk.results[2].success /\ bulk.results[2].error.ctx.attempts = 4
    /\ bulk.results[1].success

\* C34: bulkOperation leaves every record of the caller's list as it was
\* given (an update request's body is a copy without the id), and the
\* failure result of record n carries that record, id included.
C34_InputsUnchanged ==
    /\ bulk.items = [n \in DOMAIN bulk.items |-> Item(n)]
    /\ \A k \in DOMAIN bulk.batch :
          bulk.operation = "update" =>
             /\ bulk.batch[k].req.body = <<WithoutId(Item(bulk.i + k))>>
             /\ bulk.batch[k].req.id = Item(bulk.i + k).id
    /\ \A n \in DOMAIN bulk.results :
          ~bulk.results[n].success =>
             /\ bulk.results[n].item = <<Item(n)>>
             /\ bulk.results[n].item[1].id = n

C34_Witness ==
    /\ bulk.pc = "returned" /\ bulk.operation = "update"
    /\ Len(bulk.items) = 2 /\ bulk.results[1].success
    /\ ~bulk.results[2].success
    /\ bulk.results[2].item = <<[id |-> 2, name |-> 2]>>

----------------------------------------------------------------------------
(* SpecPage: requestAllItems against a dataset of page.n rows.             *)
(* page.c is the current round's requestWithRetry call, page.rounds the    *)
(* rounds issued, page.offsets their offsets, page.processed the rounds    *)
(* whose response arrived, page.last the latest such response.  wire is    *)
(* the query mapping of every fetch issued.  page.honoured: every response *)
(* so far was the page of the dataset that offset and limit select.        *)

DefaultLimit == 200

\* paginatedQs.limit = paginatedQs.limit || 200  (0: absent)
EffectiveLimit(qsLimit) == IF qsLimit # 0 THEN qsLimit ELSE DefaultLimit

\* an offset that advances by one row instead of one page
NextOffsetByOne(offset, limit) == offset + 1

NextOffset(offset, limit) == offset + limit

\* a loop that goes on after any page of at least `limit` rows
ContinueAtLeast(p, limit) == p.shape = "dataArr" /\ Len(p.rows) >= limit

\* a loop that goes on after any page that is an array
ContinueOnAnyArray(p, limit) == p.shape = "dataArr"

\* the do-while condition
Continue(p, limit) == p.shape = "dataArr" /\ Len(p.rows) = limit

PageQs(limit, offset) == [limit |-> limit, offset |-> offset]

\* the caller's query mapping: its limit (0: none) and its offset (<<>>: none)
CallerQs(limit, offset) == [limit |-> limit, offset |-> offset]

\* a copy that keeps the caller's offset
PaginatedQsKeepsOffset(qs) ==
    PageQs(EffectiveLimit(qs.limit),
           IF qs.offset = <<>> THEN 0 ELSE qs.offset[1])

\* const paginatedQs = { ...qs };
\* paginatedQs.limit = paginatedQs.limit || 200; paginatedQs.offset = 0
PaginatedQs(qs) == PageQs(EffectiveLimit(qs.limit), 0)

\* one round: requestWithRetry with the current offset and limit
StartRound(p) ==
    [p EXCEPT !.c = StartCall(Req("GET", <<"/rest", "companies">>, 0, <<>>,
                                  PageQs(p.limit, p.offset)),
                              DEFAULT_RETRY_CONFIG),
              !.rounds = @ + 1,
              !.offsets = Append(@, p.offset)]

\* a loop that answers a failed round with the items gathered so far
AfterRoundReturnsPartial(p) ==
    IF p.c.pc = "raised" THEN [p EXCEPT !.pc = "returned"]
    ELSE IF p.c.pc # "returned" THEN p
    ELSE LET resp == p.c.value
             q == [p EXCEPT !.processed = @ + 1, !.last = resp] IN
         IF ~ReadsData(resp)
         THEN [q EXCEPT !.pc = "raised", !.error = TypeError]
         ELSE LET r == [q EXCEPT !.returnData = @ \o ItemsOf(resp),
                                 !.offset = NextOffset(@, q.limit)] IN
              IF Continue(resp, r.limit) THEN StartRound(r)
              ELSE [r EXCEPT !.pc = "returned"]

\* the rest of the loop body once the round's call has settled
AfterRound(p) ==
    IF p.c.pc = "raised" THEN [p EXCEPT !.pc = "raised", !.error = p.c.error]
    ELSE IF p.c.pc # "returned" THEN p
    ELSE LET resp == p.c.value
             q == [p EXCEPT !.processed = @ + 1, !.last = resp] IN
         IF ~ReadsData(resp)
         THEN [q EXCEPT !.pc = "raised", !.error = TypeError]
         ELSE LET r == [q EXCEPT !.returnData = @ \o ItemsOf(resp),
                                 !.offset = NextOffset(@, q.limit)] IN
              IF Continue(resp, r.limit) THEN StartRound(r)
              ELSE [r EXCEPT !.pc = "returned"]

Dataset(n) == [j \in 1..n |-> Row("data", j)]
Rows(offset, k) == [j \in 1..k |-> Row("data", offset + j)]
Max(a, b) == IF a >= b THEN a ELSE b

\* a server that honours offset and limit
Honest(n, qs) ==
    OkJson(Payload("dataArr",
                   Rows(qs.offset, Max(0, Min(qs.limit, n - qs.offset)))))

\* page lengths a server may answer with
PageLengths(limit) == {k \in {0, 1, limit - 1, limit, limit + 1} : k >= 0}

PageResponses(n, qs) ==
    {Honest(n, qs)}
    \cup {OkJson(Payload("dataArr", Rows(qs.offset, k))) :
             k \in PageLengths(qs.limit)}
    \cup {OkJson(Payload("dataObj", Rows(qs.offset, 1))),
          OkJson(Payload("bareArr", Rows(qs.offset, 1))),
          OkJson(Payload("dataFalsy", <<>>)),
          OkJson(Payload("null", <<>>)),
          OkEmpty, OkInvalid}

DatasetSizes == 0..MaxData \cup {200, 230, 400}

\* the offsets tried in the caller's mapping: none, and, with the smaller
\* datasets, one
CallerOffsets(n) == IF n <= 1 THEN {<<>>, <<MaxLimit>>} ELSE {<<>>}

InitPage ==
    /\ \E n \in DatasetSizes, qsLimit \in 0..MaxLimit :
       \E qsOffset \in CallerOffsets(n) :
          page = StartRound([pc |-> "running", n |-> n, qsLimit |-> qsLimit,
                             qs |-> CallerQs(qsLimit, qsOffset),
                             limit |->
                                PaginatedQs(CallerQs(qsLimit, qsOffset)).limit,
                             offset |->
                                PaginatedQs(CallerQs(qsLimit, qsOffset)).offset,
                             returnData |-> <<>>, c |-> NoCall,
                             error |-> NoError, rounds |-> 0,
                             offsets |-> <<>>, processed |-> 0,
                             last |-> NoPayload, honoured |-> TRUE,
                             faults |-> 0])
    /\ wire = <<page.c.req.qs>>
    /\ call = NoCall /\ search = Idle /\ find = Idle /\ bulk = Idle
    /\ delay = -1 /\ tool = Idle /\ runs = Idle /\ built = Idle

\* the fetches issued by a step, appended to the wire
Issued(before, after) ==
    IF after.rounds > before.rounds \/ after.c.calls > before.c.calls
    THEN <<after.c.req.qs>> ELSE <<>>

\* the current round's request is answered
PageResponse ==
    /\ page.pc = "running" /\ page.c.pc = "inflight"
    /\ page.rounds <= MaxRounds
    /\ \/ \E resp \in PageResponses(page.n, page.c.req.qs) :
             page' = AfterRound([page EXCEPT
                         !.c = OnResponse(@, resp),
                         !.honoured = @ /\ resp = Honest(page.n, page.c.req.qs)])
       \/ /\ page.faults < MaxFaults
          /\ \E resp \in FaultResponses :
                page' = AfterRound([page EXCEPT !.c = OnResponse(@, resp),
                                                !.faults = @ + 1])
    /\ wire' = wire \o Issued(page, page')
    /\ UNCHANGED <<call, search, find, bulk, delay, built, tool, runs>>

\* the current round's backoff wait is over
PageWake ==
    /\ page.pc = "running" /\ page.c.pc = "sleeping"
    /\ page' = AfterRound([page EXCEPT !.c = OnWake(@)])
    /\ wire' = wire \o Issued(page, page')
    /\ UNCHANGED <<call, search, find, bulk, delay, built, tool, runs>>

NextPage == PageResponse \/ PageWake

SpecPage == InitPage /\ [][NextPage]_vars

\* C6: against a server that honours offset and limit, requestAllItems
\* returns exactly the N rows of the dataset in server order, in
\* floor(N/L)+1 requests at offsets 0, L, 2L, ..., where L is the caller's
\* limit, or 200 when there is none.
C6_HonestPagination ==
    (page.pc = "returned" /\ page.honoured) =>
        LET L == IF page.qsLimit = 0 THEN 200 ELSE page.qsLimit
            expected == [k \in 1..((page.n \div L) + 1) |-> (k - 1) * L] IN
        /\ page.returnData = Dataset(page.n)
        /\ page.rounds = (page.n \div L) + 1
        /\ page.offsets = expected
        /\ \A k \in DOMAIN wire : wire[k].limit = L
        /\ page.faults = 0 =>
              wire = [k \in DOMAIN expected |-> PageQs(L, expected[k])]

C6_Witness ==
    /\ page.pc = "returned" /\ page.honoured /\ page.n = 230
    /\ page.qsLimit = 0 /\ Len(page.returnData) = 230
    /\ wire = <<PageQs(200, 0), PageQs(200, 200)>>

\* whether the run stopped after the latest round whose response arrived
StoppedAfterLast == page.rounds = page.processed
LastIsArray == page.last.shape = "dataArr"

\* C7 as stated: requestAllItems stops after a round exactly when the
\* round's `data` is not an array or holds fewer rows than the limit, and
\* goes on after every round whose `data` is an array of at least `limit`
\* rows.
C7_StopsOnShortPageOnly ==
    page.processed > 0 =>
        (StoppedAfterLast <=>
            (~LastIsArray \/ Len(page.last.rows) < page.limit))

\* C7, amended: requestAllItems stops after a round exactly when the
\* round's `data` is not an array or its length differs from the limit
\* (shorter or longer), and goes on after every round whose `data` is an
\* array of exactly `limit` rows.
C7_StopsUnlessFullPage ==
    page.processed > 0 =>
        (StoppedAfterLast <=>
            (~LastIsArray \/ Len(page.last.rows) # page.limit))

C7_Witness ==
    /\ page.processed = 2 /\ page.rounds = 2 /\ page.pc = "returned"
    /\ page.limit = 2 /\ page.last.shape = "dataArr"
    /\ Len(page.last.rows) = 3 /\ Len(page.returnData) = 5

\* C31: during one requestAllItems run every request carries the same
\* limit, the caller's or 200 when there is none; the first round's offset
\* is 0 whatever offset the caller's mapping holds; every later round's
\* offset is the previous one plus the limit; and a round is issued only
\* when the response of every earlier round has been received.
C31_FixedLimitSteppedOffsets ==
    LET L == IF page.qsLimit = 0 THEN 200 ELSE page.qsLimit IN
    /\ \A k \in DOMAIN wire : wire[k].limit = L
    /\ page.offsets[1] = 0 /\ wire[1].offset = 0
    /\ \A k \in DOMAIN page.offsets :
          k > 1 => page.offsets[k] = page.offsets[k - 1] + L
    /\ Len(page.offsets) = page.rounds
    /\ wire[Len(wire)].offset = page.offsets[page.rounds]
    /\ page.rounds <= page.processed + 1
    /\ (page.pc = "running") => page.rounds = page.processed + 1

C31_Witness ==
    /\ page.qs.offset = <<3>> /\ page.qsLimit = 2 /\ page.rounds = 3
    /\ page.processed = 2 /\ page.pc = "running"
    /\ page.offsets = <<0, 2, 4>> /\ page.faults > 0

\* the items the latest processed round added to the accumulator: every
\* earlier round added a full page
Contributed ==
    SubSeq(page.returnData, (page.processed - 1) * page.limit + 1,
           Len(page.returnData))

Settlement(p) ==
    IF p.pc = "raised"
    THEN [state |-> "rejected", items |-> <<>>, error |-> p.error]
    ELSE IF p.pc = "returned"
    THEN [state |-> "fulfilled", items |-> p.returnData, error |-> NoError]
    ELSE [state |-> "pending", items |-> <<>>, error |-> NoError]

RoundFailed == page.c.pc = "raised"

\* C35: when a round of requestAllItems fails, after its retries, the call
\* raises the error of that round's requestWithRetry call, the failed round
\* is the last one issued, and the caller gets the error and none of the
\* items of the earlier rounds.
C35_FailedRoundRaises ==
    RoundFailed =>
        /\ page.pc = "raised"
        /\ Settlement(page).state = "rejected"
        /\ Settlement(page).error = page.c.error
        /\ page.c.error.kind = "wrapped"
        /\ Settlement(page).items = <<>>
        /\ page.rounds = page.processed + 1
        /\ wire[Len(wire)].offset = page.offsets[page.rounds]

C35_Witness ==
    /\ RoundFailed /\ page.pc = "raised" /\ page.rounds = 2
    /\ page.processed = 1 /\ Len(page.returnData) = 2
    /\ page.c.attempt = 3 /\ page.c.error.ctx.attempts = 4

\* requestAllItems under a transport that answers every fetch and a timer
\* that fires every wait
InitPageFair ==
    InitPage /\ page.qs.offset = <<>> /\ page.n \in {0, MaxData}

SpecPageFair == InitPageFair /\ [][NextPage]_vars /\ WF_vars(NextPage)

Finished == page.pc \in {"returned", "raised"}

\* the rounds an honest server with page.n rows needs to send a short page
RoundsNeeded == (page.n \div page.limit) + 1

\* C36: when every HTTP call completes, requestAllItems returns or raises
\* once a round has brought fewer than `limit` items, which an honest server
\* with a finite dataset sends in round floor(N/L)+1; the only runs that go
\* on are those whose every round so far brought a full page, and a return
\* never follows a full page.
C36_EndsAtShortPage ==
    /\ <>(Finished \/ page.rounds > MaxRounds)
    /\ <>(Finished \/ ~page.honoured \/ RoundsNeeded > MaxRounds)
    /\ [](page.pc = "returned" => ~Continue(page.last, page.limit))
    /\ [](page.rounds > 1 /\ page.c.pc = "inflight" /\ page.c.calls = 1 =>
              Continue(page.last, page.limit))

C36_Witness ==
    /\ page.pc = "returned" /\ page.honoured /\ page.n = 7 /\ page.limit = 2
    /\ page.rounds = 4 /\ page.faults = 2
    /\ Len(page.last.rows) = 1 /\ Len(page.returnData) = 7

----------------------------------------------------------------------------
(* SpecSearch: searchRecords.  search.calls[n] is the requestWithRetry     *)
(* call of the n-th resource type, wire[n] the last response served to it. *)

DefaultSearchLimit == 20

\* { ...item, _objectType: objectType }
Tag(item, objectType) ==
    [src |-> item.src, id |-> item.id, whole |-> item.whole,
     _objectType |-> objectType]

SearchReq(query, objectType, limit) ==
    Req("GET", <<"/rest", objectType>>, 0, <<>>,
        [search |-> query, limit |-> limit])

\* an arrow function without the try/catch
TypePromiseNoCatch(objectType, c) ==
    IF c.pc = "returned" /\ ReadsData(c.value)
    THEN Promise("fulfilled",
                 [k \in DOMAIN ItemsOf(c.value) |->
                     Tag(ItemsOf(c.value)[k], objectType)])
    ELSE IF Settled(c) THEN Promise("rejected", <<>>)
    ELSE Promise("pending", <<>>)

\* the promise of one type's async arrow function, given its call
TypePromise(objectType, c) ==
    IF c.pc = "returned" /\ ReadsData(c.value)
    THEN Promise("fulfilled",
                 [k \in DOMAIN ItemsOf(c.value) |->
                     Tag(ItemsOf(c.value)[k], objectType)])
    ELSE IF Settled(c) THEN Promise("fulfilled", <<>>)
    ELSE Promise("pending", <<>>)

RECURSIVE Flat(_)
\* searchResults.flat()
Flat(lists) ==
    IF lists = <<>> THEN <<>> ELSE Head(lists) \o Flat(Tail(lists))

Reverse(seq) == [k \in DOMAIN seq |-> seq[Len(seq) + 1 - k]]

\* results merged last type first
MergeReversed(lists) == Flat(Reverse(lists))

Merge(lists) == Flat(lists)

\* await Promise.all(searchPromises) and the return
AfterSearchSettle(s) ==
    LET ps == [n \in DOMAIN s.calls |->
                  TypePromise(s.objectTypes[n], s.calls[n])] IN
    IF \E n \in DOMAIN ps : ps[n].state = "rejected"
    THEN [s EXCEPT !.pc = "raised"]
    ELSE IF \E n \in DOMAIN ps : ps[n].state = "pending" THEN s
    ELSE [s EXCEPT !.pc = "returned",
                   !.result = Merge([n \in DOMAIN ps |-> ps[n].result])]

\* limit: number = 20; the argument is <<>> when the caller leaves it out
LimitOrDefault(limit) ==
    IF limit = <<>> THEN DefaultSearchLimit ELSE limit[1]

\* a loop that awaits each type's call before it starts the next one
StartSearchInTurn(query, objectTypes, limit) ==
    AfterSearchSettle(
        [pc |-> "running", query |-> query, limit |-> limit,
         objectTypes |-> objectTypes,
         calls |-> [n \in DOMAIN objectTypes |->
                       LET req == SearchReq(query, objectTypes[n],
                                            LimitOrDefault(limit)) IN
                       IF n = 1 THEN StartCall(req, DEFAULT_RETRY_CONFIG)
                       ELSE Call("none", req, DEFAULT_RETRY_CONFIG, 0, 0,
                                 NoPayload, NoError)],
         result |-> <<>>, faults |-> 0])

\* objectTypes.map(async ...): every type's call runs to its first await
StartSearch(query, objectTypes, limit) ==
    AfterSearchSettle(
        [pc |-> "running", query |-> query, limit |-> limit,
         objectTypes |-> objectTypes,
         calls |-> [n \in DOMAIN objectTypes |->
                       StartCall(SearchReq(query, objectTypes[n],
                                           LimitOrDefault(limit)),
                                 DEFAULT_RETRY_CONFIG)],
         result |-> <<>>, faults |-> 0])

\* the limit arguments tried: left out, and the size of a full answer
SearchLimits == {<<>>, <<MaxHits>>}

\* the search tool's default list of types, and the lists tried: runs of
\* consecutive types of it, in its order or in the reverse order
AllTypes == <<"people", "companies", "opportunities", "notes", "tasks">>
TypeLists ==
    {list \in {SubSeq(order, a, b) :
                  order \in {AllTypes, Reverse(AllTypes)},
                  a \in 1..Len(AllTypes), b \in 0..Len(AllTypes)} :
        Len(list) <= MaxTypes}

\* the CRM's successful answers to a search of one type
SearchResponses(req) ==
    {OkJson(Payload("dataArr", [j \in 1..k |-> Row(req.endpoint[2], j)])) :
        k \in {0, MaxHits}}
    \cup {OkJson(Payload("dataObj", <<Row(req.endpoint[2], 1)>>)),
          OkJson(Payload("null", <<>>)), OkEmpty}

InitSearch ==
    /\ \E objectTypes \in TypeLists, limit \in SearchLimits :
          search = StartSearch("acme", objectTypes, limit)
    /\ wire = [n \in DOMAIN search.objectTypes |-> NoResponse]
    /\ call = NoCall /\ page = Idle /\ find = Idle /\ bulk = Idle
    /\ delay = -1 /\ tool = Idle /\ runs = Idle /\ built = Idle

\* the request of the n-th type is answered
SearchResponse ==
    /\ search.pc = "running"
    /\ \E n \in DOMAIN search.calls :
          /\ search.calls[n].pc = "inflight"
          /\ \/ \E resp \in SearchResponses(search.calls[n].req) :
                   /\ search' = AfterSearchSettle([search EXCEPT
                                    !.calls[n] = OnResponse(@, resp)])
                   /\ wire' = [wire EXCEPT ![n] = resp]
             \/ /\ search.faults < MaxFaults
                /\ \E resp \in FaultResponses :
                      /\ search' = AfterSearchSettle([search EXCEPT
                                       !.calls[n] = OnResponse(@, resp),
                                       !.faults = @ + 1])
                      /\ wire' = [wire EXCEPT ![n] = resp]
    /\ UNCHANGED <<call, page, find, bulk, delay, built, tool, runs>>

\* the backoff wait of the n-th type is over
SearchWake ==
    /\ search.pc = "running"
    /\ \E n \in DOMAIN search.calls :
          /\ search.calls[n].pc = "sleeping"
          /\ search' = AfterSearchSettle([search EXCEPT
                           !.calls[n] = OnWake(@)])
    /\ UNCHANGED <<call, wire, page, find, bulk, delay, built, tool, runs>>

NextSearch == SearchResponse \/ SearchWake

SpecSearch == InitSearch /\ [][NextSearch]_vars

\* the items of the result that carry the n-th type's tag, in result order
TaggedWith(n) ==
    LET Mine(t) == t._objectType = search.objectTypes[n] IN
    SelectSeq(search.result, Mine)
Untagged(t) == [src |-> t.src, id |-> t.id, whole |-> t.whole]

\* the items a response holds: none for a failure and for a null body, the
\* rows of `data`, or the response object itself when it has no `data`
ServedItems(resp) ==
    LET r == request(resp) IN
    IF r.threw THEN <<>>
    ELSE CASE r.value.shape \in {"dataArr", "dataObj", "bareArr"} ->
                  r.value.rows
           [] r.value.shape \in {"noData", "dataFalsy"} -> <<WholeItem>>
           [] r.value.shape = "null" -> <<>>

\* C8: searchRecords never raises; it returns once every type's request
\* has run to completion, and then a type whose request failed contributes
\* no item while a type whose request succeeded contributes exactly the
\* items of its response.
C8_FailedTypesContributeNothing ==
    /\ search.pc # "raised"
    /\ search.pc = "returned" <=>
          \A n \in DOMAIN search.calls : Settled(search.calls[n])
    /\ search.pc = "returned" =>
          \A n \in DOMAIN search.objectTypes :
              LET last == request(wire[n])
                  mine == TaggedWith(n) IN
              /\ wire[n] # NoResponse
              /\ last.threw => mine = <<>>
              /\ ~last.threw =>
                    [k \in DOMAIN mine |-> Untagged(mine[k])] =
                        ServedItems(wire[n])

C8_Witness ==
    /\ search.pc = "returned"
    /\ search.objectTypes = <<"companies", "people">>
    /\ wire[1] = HttpError(400)
    /\ search.result = <<Tag(Row("people", 1), "people"),
                         Tag(Row("people", 2), "people")>>

TypeIndex(t) ==
    CHOOSE n \in DOMAIN search.objectTypes :
        search.objectTypes[n] = t._objectType

\* C9: the result of searchRecords lists the items type by type in the
\* order of the objectTypes argument and, within a type, in the order of
\* that type's response; every row carries the tag of the type whose
\* request returned it, and no item of a successful response is missing.
C9_ResultInTypeOrder ==
    search.pc = "returned" =>
        /\ \A a, b \in DOMAIN search.result :
              a < b =>
                  \/ TypeIndex(search.result[a]) < TypeIndex(search.result[b])
                  \/ /\ TypeIndex(search.result[a]) = TypeIndex(search.result[b])
                     /\ search.result[a].id < search.result[b].id
        /\ \A a \in DOMAIN search.result :
              /\ \E n \in DOMAIN search.objectTypes :
                    search.objectTypes[n] = search.result[a]._objectType
              /\ ~search.result[a].whole =>
                    search.result[a]._objectType = search.result[a].src
        /\ [a \in DOMAIN search.result |-> Untagged(search.result[a])] =
              Flat([n \in DOMAIN wire |-> ServedItems(wire[n])])

C9_Witness ==
    /\ search.pc = "returned"
    /\ search.objectTypes = <<"companies", "people">>
    /\ search.result = <<Tag(Row("companies", 1), "companies"),
                         Tag(Row("companies", 2), "companies"),
                         Tag(Row("people", 1), "people"),
                         Tag(Row("people", 2), "people")>>

\* C30: searchRecords makes one requestWithRetry call per resource type, a
\* GET of /rest/<type> with search = query and limit = the limit argument,
\* 20 when it is left out, and the first attempt of every type is issued
\* before any response is awaited: in every state every type's request has
\* been issued, whatever the other types' calls are doing.
C30_OneRequestPerTypeAtOnce ==
    search.pc # "idle" =>
        /\ Len(search.calls) = Len(search.objectTypes)
        /\ \A n \in DOMAIN search.calls :
              LET c == search.calls[n] IN
              /\ c.req.method = "GET" /\ c.req.body = <<>> /\ c.req.id = 0
              /\ c.req.endpoint = <<"/rest", search.objectTypes[n]>>
              /\ c.req.qs.search = search.query
              /\ c.req.qs.limit = (IF search.limit = <<>> THEN 20
                                   ELSE search.limit[1])
              /\ c.calls >= 1
              /\ wire[n] = NoResponse =>
                    (c.pc = "inflight" /\ c.calls = 1 /\ c.attempt = 0)

C30_Witness ==
    /\ search.pc = "running" /\ Len(search.objectTypes) = 2
    /\ search.limit = <<>> /\ search.calls[1].req.qs.limit = 20
    /\ search.calls[1].pc = "sleeping" /\ search.calls[1].attempt = 1
    /\ search.calls[2].pc = "inflight" /\ search.calls[2].calls = 1
    /\ wire[2] = NoResponse

----------------------------------------------------------------------------
(* SpecFind: findRecordByField.  find.c is the current requestWithRetry    *)
(* call, find.requests the query mappings of the calls made so far,        *)
(* find.primary the filter call once it has settled, find.result the       *)
(* returned record (<<>>: null).                                           *)

\* a row with the value of its `fieldName` property: a string, or a value
\* of another type with `text` as its String() coercion
FieldRow(id, isString, text) ==
    [src |-> "companies", id |-> id, whole |-> FALSE,
     isString |-> isString, text |-> text]

\* String.prototype.toLowerCase on the strings of the model
toLowerCase(text) ==
    CASE text \in {"Acme", "ACME", "acme"} -> "acme"
      [] text = "Other" -> "other"
      [] OTHER -> text

\* a predicate that compares strings as they are
MatchesExactly(item, fieldValue) == item.text = fieldValue

\* the predicate of data.find on the fallback path
Matches(item, fieldValue) ==
    IF item.isString THEN toLowerCase(item.text) = toLowerCase(fieldValue)
    ELSE item.text = fieldValue

\* Array.isArray(data) with data = response.data || response
DataIsArray(p) == p.shape \in {"dataArr", "bareArr"}

FilterQs(fieldName, fieldValue) ==
    [filter |-> <<fieldName, "eq", fieldValue>>, search |-> "", limit |-> 1]
SearchQs(fieldValue) ==
    [filter |-> <<>>, search |-> fieldValue, limit |-> 10]

FindCall(f, qs) ==
    [f EXCEPT !.c = StartCall(Req("GET", getResourceEndpoint(f.resource), 0,
                                  <<>>, qs),
                              DEFAULT_RETRY_CONFIG),
              !.requests = Append(@, qs)]

\* a lookup that also falls back when the filter finds no row
EntersCatchOnNoRow(c) ==
    \/ c.pc = "raised"
    \/ c.pc = "returned" /\ ~ReadsData(c.value)
    \/ c.pc = "returned" /\ ~(DataIsArray(c.value) /\ Len(c.value.rows) > 0)

\* whether a settled call leaves its try block through the catch: the call
\* raised, or reading `response.data` threw
EntersCatch(c) ==
    \/ c.pc = "raised"
    \/ c.pc = "returned" /\ ~ReadsData(c.value)

\* the first element of the rows that satisfies the predicate, or none
RECURSIVE FirstMatch(_, _)
FirstMatch(rows, fieldValue) ==
    IF rows = <<>> THEN <<>>
    ELSE IF Matches(Head(rows), fieldValue) THEN <<Head(rows)>>
    ELSE FirstMatch(Tail(rows), fieldValue)

\* a fallback search without its try block: the failure leaves the lookup
SearchCatchRethrows(f) == [f EXCEPT !.pc = "raised"]

\* the catch of the fallback search: both attempts failed, return null
SearchCatch(f) == [f EXCEPT !.pc = "returned", !.result = <<>>]

\* the code after the await of the current call
AfterFind(f) ==
    IF ~Settled(f.c) THEN f
    ELSE IF f.phase = "filter"
    THEN LET g == [f EXCEPT !.primary = f.c] IN
         IF EntersCatch(f.c)
         THEN FindCall([g EXCEPT !.phase = "search"], SearchQs(f.fieldValue))
         ELSE [g EXCEPT !.pc = "returned",
                        !.result = IF DataIsArray(f.c.value)
                                      /\ Len(f.c.value.rows) > 0
                                   THEN <<f.c.value.rows[1]>> ELSE <<>>]
    ELSE IF EntersCatch(f.c) THEN SearchCatch(f)
    ELSE [f EXCEPT !.pc = "returned",
                   !.result = IF DataIsArray(f.c.value)
                              THEN FirstMatch(f.c.value.rows, f.fieldValue)
                              ELSE <<>>]

FieldValues ==
    {<<TRUE, "Acme">>, <<TRUE, "ACME">>, <<TRUE, "Other">>,
     <<FALSE, "Acme">>, <<FALSE, "ACME">>, <<FALSE, "undefined">>}
RowLists ==
    {<<>>}
    \cup {<<FieldRow(1, v[1], v[2])>> : v \in FieldValues}
    \cup {<<FieldRow(1, v[1], v[2]), FieldRow(2, w[1], w[2])>> :
             v \in FieldValues, w \in FieldValues}

\* the CRM's successful answers to a lookup request
FindResponses ==
    {OkJson(Payload("dataArr", rows)) : rows \in RowLists}
    \cup {OkJson(Payload("dataObj", <<FieldRow(1, TRUE, "Acme")>>)),
          OkJson(Payload("bareArr", <<FieldRow(1, TRUE, "Acme")>>)),
          OkJson(Payload("null", <<>>)), OkEmpty, OkInvalid}

InitFind ==
    /\ \E resource \in {"company", "widgets"} :
          find = FindCall([pc |-> "running", phase |-> "filter",
                           resource |-> resource, fieldName |-> "name",
                           fieldValue |-> "Acme", c |-> NoCall,
                           primary |-> NoCall, requests |-> <<>>,
                           result |-> <<>>, faults |-> 0],
                          FilterQs("name", "Acme"))
    /\ wire = <<>>
    /\ call = NoCall /\ page = Idle /\ search = Idle /\ bulk = Idle
    /\ delay = -1 /\ tool = Idle /\ runs = Idle /\ built = Idle

\* the current request is answered
FindResponse ==
    /\ find.pc = "running" /\ find.c.pc = "inflight"
    /\ \/ \E resp \in FindResponses :
             find' = AfterFind([find EXCEPT !.c = OnResponse(@, resp)])
       \/ /\ find.faults < MaxFaults
          /\ \E resp \in FaultResponses :
                find' = AfterFind([find EXCEPT !.c = OnResponse(@, resp),
                                               !.faults = @ + 1])
    /\ UNCHANGED <<call, wire, page, search, bulk, delay, built, tool, runs>>

\* the current backoff wait is over
FindWake ==
    /\ find.pc = "running" /\ find.c.pc = "sleeping"
    /\ find' = AfterFind([find EXCEPT !.c = OnWake(@)])
    /\ UNCHANGED <<call, wire, page, search, bulk, delay, built, tool, runs>>

NextFind == FindResponse \/ FindWake

SpecFind == InitFind /\ [][NextFind]_vars

SearchIssued == Len(find.requests) = 2

\* C10 as stated: the free-text search request is issued if and only if the
\* filter request raised; when the filter request succeeds no search is
\* issued and the result is the first returned row, or none without rows.
C10_SearchIffFilterRaised ==
    /\ find.requests[1] = FilterQs("name", "Acme")
    /\ SearchIssued => find.requests[2] = SearchQs("Acme")
    /\ SearchIssued <=> find.primary.pc = "raised"
    /\ find.primary.pc = "returned" =>
          /\ find.pc = "returned"
          /\ find.result =
                (IF DataIsArray(find.primary.value)
                    /\ find.primary.value.rows # <<>>
                 THEN <<find.primary.value.rows[1]>> ELSE <<>>)

\* C10, amended: the free-text search request (search=value, limit 10) is
\* issued if and only if the filter request (filter on field eq value,
\* limit 1) raised or succeeded with the JSON body null; when the filter
\* request succeeds with any other body no search is issued and the result
\* is the first returned row, or none without rows.
C10_SearchIffFilterFailedOrNull ==
    /\ find.requests[1] = FilterQs("name", "Acme")
    /\ SearchIssued => find.requests[2] = SearchQs("Acme")
    /\ SearchIssued <=>
          \/ find.primary.pc = "raised"
          \/ find.primary.pc = "returned" /\ find.primary.value.shape = "null"
    /\ (find.primary.pc = "returned" /\ find.primary.value.shape # "null") =>
          /\ find.pc = "returned"
          /\ find.result =
                (IF DataIsArray(find.primary.value)
                    /\ find.primary.value.rows # <<>>
                 THEN <<find.primary.value.rows[1]>> ELSE <<>>)

C10_Witness ==
    /\ find.pc = "returned" /\ find.primary.pc = "returned"
    /\ find.primary.value.shape = "null"
    /\ find.requests = <<FilterQs("name", "Acme"), SearchQs("Acme")>>
    /\ find.result = <<FieldRow(1, TRUE, "ACME")>>

\* a settled lookup request that failed or brought no row
FailedOrEmpty(c) ==
    \/ c.pc = "raised"
    \/ c.pc = "returned" /\ ~ReadsData(c.value)
    \/ c.pc = "returned" /\ ~DataIsArray(c.value)
    \/ c.pc = "returned" /\ c.value.rows = <<>>

\* C11: findRecordByField never raises to its caller; whenever the filter
\* request failed or was empty, and the fallback search (if one was made)
\* failed or was empty too, it returns null.
C11_LookupNeverRaises ==
    /\ find.pc \in {"running", "returned"}
    /\ (/\ find.pc = "returned"
        /\ FailedOrEmpty(find.primary)
        /\ SearchIssued => FailedOrEmpty(find.c))
          => find.result = <<>>

C11_Witness ==
    /\ find.pc = "returned" /\ SearchIssued
    /\ find.primary.pc = "raised" /\ find.c.pc = "raised"
    /\ find.result = <<>>

\* the lookup returned from the try block of its fallback search
FallbackReturned ==
    /\ find.pc = "returned" /\ SearchIssued
    /\ find.c.pc = "returned" /\ ReadsData(find.c.value)

\* a row whose field equals the target: without regard to case when the
\* field is a string, by its string coercion otherwise
FieldEquals(row, target) ==
    \/ row.isString /\ toLowerCase(row.text) = toLowerCase(target)
    \/ ~row.isString /\ row.text = target

\* C33: on the fallback path findRecordByField returns the first row, in
\* response order, whose field equals the target (case-insensitively for a
\* string field, by string coercion otherwise), and none when no row does
\* or the response data is not an array.
C33_FirstMatchingRow ==
    FallbackReturned =>
        LET rows == find.c.value.rows
            hits == {k \in DOMAIN rows : FieldEquals(rows[k], find.fieldValue)}
        IN
        IF ~DataIsArray(find.c.value) \/ hits = {} THEN find.result = <<>>
        ELSE \E k \in hits :
                /\ \A j \in hits : k <= j
                /\ find.result = <<rows[k]>>

C33_Witness ==
    /\ FallbackReturned
    /\ find.c.value.rows = <<FieldRow(1, FALSE, "ACME"), FieldRow(2, TRUE, "ACME")>>
    /\ find.result = <<FieldRow(2, TRUE, "ACME")>>
    /\ find.primary.pc = "raised"

----------------------------------------------------------------------------
(* SpecOps: one call of searchRecords, of findRecordByField or of          *)
(* bulkOperation, to compare what each makes of a failed sub-request.      *)

InitOps ==
    \/ InitSearch
    \/ InitFind
    \/ /\ \E n \in 1..MaxOpsItems, operation \in Operations :
             bulk = BulkLoop([pc |-> "running", operation |-> operation,
                              resource |-> "company",
                              items |-> [k \in 1..n |-> Item(k)],
                              i |-> 0, batch |-> <<>>, results |-> <<>>,
                              faults |-> 0], 0)
       /\ call = NoCall
       /\ wire = [k \in 1..Len(bulk.items) |-> NoResponse]
       /\ page = Idle /\ search = Idle /\ find = Idle
       /\ delay = -1 /\ tool = Idle /\ runs = Idle /\ built = Idle

NextOps == NextSearch \/ NextFind \/ NextBulk

SpecOps == InitOps /\ [][NextOps]_vars

\* a call that returned a page without rows in place of raising
ReturnedEmpty(c) ==
    [c EXCEPT !.pc = "returned", !.value = Payload("dataArr", <<>>),
              !.error = NoError]

\* what searchRecords returns when every failed type's request is replaced
\* by one that succeeded with no rows
SearchResultIfEmpty ==
    Merge([n \in DOMAIN search.calls |->
              TypePromise(search.objectTypes[n],
                          IF search.calls[n].pc = "raised"
                          THEN ReturnedEmpty(search.calls[n])
                          ELSE search.calls[n]).result])

\* every failed record's place in the results of bulkOperation says so
BulkRecordsFailures ==
    bulk.pc = "returned" =>
       \A n \in DOMAIN bulk.results :
          request(wire[n]).threw =>
             /\ ~bulk.results[n].success
             /\ bulk.results[n].error.kind = "wrapped"
             /\ bulk.results[n].item = <<bulk.items[n]>>

\* C16 as stated: every failed sub-request of searchRecords,
\* findRecordByField and bulkOperation shows to the caller: the operation
\* raises, or its value records the failure and so differs from the value
\* of a successful empty outcome.
C16_EveryFailureObservable ==
    /\ BulkRecordsFailures
    /\ (search.pc = "returned"
        /\ \E n \in DOMAIN search.calls : search.calls[n].pc = "raised")
          => search.result # SearchResultIfEmpty
    /\ (find.pc = "returned" /\ find.c.pc = "raised") => find.result # <<>>

\* C16, amended: every failed sub-request of bulkOperation shows to the
\* caller as a {success: false, error, item} result at the record's place.
\* searchRecords and findRecordByField neither raise nor record a failure:
\* searchRecords returns what it would return had each failed type answered
\* with no rows, and findRecordByField returns null when its last request
\* failed.
C16_OnlyBulkRecordsFailures ==
    /\ BulkRecordsFailures
    /\ search.pc # "raised" /\ find.pc # "raised"
    /\ search.pc = "returned" => search.result = SearchResultIfEmpty
    /\ (find.pc = "returned" /\ find.c.pc = "raised") => find.result = <<>>

C16_Witness ==
    /\ search.pc = "returned" /\ search.objectTypes = <<"people", "companies">>
    /\ search.calls[1].pc = "raised" /\ search.calls[2].pc = "raised"
    /\ search.result = <<>>

----------------------------------------------------------------------------
(* SpecRequest: the constructor, and request() from its call to its fetch. *)
(* A URL or path is a sequence of tokens, "/" being the slash.  A mapping  *)
(* (DataObject) lists its values in key order, the k-th key being k; a     *)
(* value is one of                                                         *)
(*   "undefined", "null", "empty" (the string ""), "text" (a non-empty     *)
(*   string), "zero" (the number 0)                                        *)

Values == {"undefined", "null", "empty", "text", "zero"}

Mapping(entries) == [given |-> TRUE, entries |-> entries]
\* an argument that is not passed
Undefined == [given |-> FALSE, entries |-> <<>>]
Mappings(n) == {Mapping(entries) : entries \in [1..n -> Values]}

\* String(value)
String(value) ==
    CASE value = "text" -> "text"
      [] value = "zero" -> "0"
      [] value = "empty" -> ""
      [] value = "null" -> "null"
      [] value = "undefined" -> "undefined"

\* the JSON text of a value that JSON.stringify writes
JsonToken(value) ==
    CASE value = "text" -> "\"text\""
      [] value = "zero" -> "0"
      [] value = "empty" -> "\"\""
      [] value = "null" -> "null"

\* Object.entries(mapping)
Entries(mapping) ==
    [k \in DOMAIN mapping.entries |-> [key |-> k, value |-> mapping.entries[k]]]

\* a filter that lets null and "" through
EmittedUnlessUndefined(value) == value # "undefined"

\* value !== undefined && value !== null && value !== ""
Emitted(value) == value \notin {"undefined", "null", "empty"}

\* the URLSearchParams after the loop over Object.entries(qs)
Params(qs) ==
    LET Kept(e) == Emitted(e.value)
        kept == SelectSeq(Entries(qs), Kept) IN
    [i \in DOMAIN kept |-> [key |-> kept[i].key, value |-> String(kept[i].value)]]

\* JSON.stringify(body): a key whose value is undefined is left out
JSON_stringify(body) ==
    LET Defined(e) == e.value # "undefined"
        kept == SelectSeq(Entries(body), Defined) IN
    [i \in DOMAIN kept |-> [key |-> kept[i].key, json |-> JsonToken(kept[i].value)]]

\* a constructor that keeps the URL as given
KeepTrailingSlash(apiUrl) == apiUrl

\* credentials.apiUrl.replace(/\/$/, "")
ReplaceTrailingSlash(apiUrl) ==
    IF apiUrl # <<>> /\ apiUrl[Len(apiUrl)] = "/"
    THEN SubSeq(apiUrl, 1, Len(apiUrl) - 1)
    ELSE apiUrl

\* method.toUpperCase()
toUpperCase(method) ==
    CASE method \in {"GET", "get"} -> "GET"
      [] method \in {"DELETE", "delete"} -> "DELETE"
      [] method \in {"POST", "post"} -> "POST"
      [] OTHER -> method

\* the URL handed to fetch: query <<>> stands for a URL without "?"
Url(baseUrl, endpoint, qs) ==
    [path |-> baseUrl \o endpoint,
     query |-> IF qs.given /\ qs.entries # <<>> THEN Params(qs) ELSE <<>>]

\* a body attached whatever the method
AttachesBodyAnyMethod(method, body) == body.given /\ body.entries # <<>>

\* body && Object.keys(body).length > 0
\*      && !["GET", "DELETE"].includes(method.toUpperCase())
AttachesBody(method, body) ==
    /\ body.given /\ body.entries # <<>>
    /\ toUpperCase(method) \notin {"GET", "DELETE"}

NoBody == [attached |-> FALSE, json |-> <<>>]

\* the RequestInit handed to fetch
Options(method, apiKey, body) ==
    [method |-> method,
     headers |-> [Authorization |-> <<"Bearer", apiKey>>,
                  ContentType |-> "application/json"],
     body |-> IF AttachesBody(method, body)
              THEN [attached |-> TRUE, json |-> JSON_stringify(body)]
              ELSE NoBody]

\* new TwentyCrmClient({ apiUrl, apiKey }), no request under way
Client(apiUrl, apiKey) ==
    [pc |-> "ready", apiUrl |-> apiUrl,
     baseUrl |-> ReplaceTrailingSlash(apiUrl), apiKey |-> apiKey,
     method |-> "", endpoint |-> <<>>, body |-> Undefined, qs |-> Undefined,
     url |-> [path |-> <<>>, query |-> <<>>],
     options |-> Options("", apiKey, Undefined)]

\* the API URLs tried: a host or a host with a path, then 0..MaxSlashes slashes
ApiUrls ==
    {stem \o [k \in 1..n |-> "/"] :
        stem \in {<<"https://crm">>, <<"https://crm", "/", "api">>},
        n \in 0..MaxSlashes}
Endpoints == {<<"/", "rest", "/", "companies">>}
Methods == {"GET", "DELETE", "POST", "PUT", "PATCH", "get", "delete", "post"}

InitRequest ==
    /\ \E apiUrl \in ApiUrls : built = Client(apiUrl, "key")
    /\ call = NoCall /\ wire = <<>> /\ delay = -1 /\ tool = Idle /\ runs = Idle
    /\ page = Idle /\ search = Idle /\ find = Idle /\ bulk = Idle

\* request(method, endpoint, body, qs) runs to its await of fetch
RequestFetch ==
    /\ built.pc = "ready"
    /\ \E method \in Methods, endpoint \in Endpoints,
          nq \in 0..MaxKeys, nb \in 0..MaxKeys :
          /\ nq + nb <= MaxKeys
          /\ \E qs \in Mappings(nq) \cup {Undefined},
                body \in Mappings(nb) \cup {Undefined} :
                built' = [built EXCEPT
                    !.pc = "fetching", !.method = method,
                    !.endpoint = endpoint, !.body = body, !.qs = qs,
                    !.url = Url(built.baseUrl, endpoint, qs),
                    !.options = Options(method, built.apiKey, body)]
    /\ UNCHANGED <<call, wire, page, search, find, bulk, delay, tool, runs>>

\* the fetch settles and request() ends: the client is free for another call
RequestSettle ==
    /\ built.pc = "fetching"
    /\ built' = Client(built.apiUrl, built.apiKey)
    /\ UNCHANGED <<call, wire, page, search, find, bulk, delay, tool, runs>>

NextRequest == RequestFetch \/ RequestSettle

SpecRequest == InitRequest /\ [][NextRequest]_vars


Blank(value) == value \in {"undefined", "null", "empty"}
QueryKeys == {built.url.query[i].key : i \in DOMAIN built.url.query}
BodyKeys ==
    {built.options.body.json[i].key : i \in DOMAIN built.options.body.json}

\* no key of the query mapping with an undefined, null or "" value is in the
\* emitted query string, and every other key is, with its value as a string
QueryStringClean ==
    built.pc = "fetching" =>
       /\ \A k \in DOMAIN built.qs.entries :
             Blank(built.qs.entries[k]) <=> k \notin QueryKeys
       /\ \A i \in DOMAIN built.url.query :
             built.url.query[i].value
                = String(built.qs.entries[built.url.query[i].key])

\* C17 as stated: no key whose value is undefined, null or the empty string
\* appears in the emitted query string, and no such key appears in the
\* transmitted request body.
C17_NoBlankKeySent ==
    /\ QueryStringClean
    /\ built.pc = "fetching" =>
          \A k \in DOMAIN built.body.entries :
             Blank(built.body.entries[k]) => k \notin BodyKeys

\* C17, amended: no key whose value is undefined, null or the empty string
\* appears in the emitted query string.  A transmitted request body leaves
\* out only the keys whose value is undefined: a key whose value is null or
\* the empty string is transmitted, as JSON null or "".
C17_NoBlankKeyInQuery ==
    /\ QueryStringClean
    /\ (built.pc = "fetching" /\ built.options.body.attached) =>
          /\ \A k \in DOMAIN built.body.entries :
                built.body.entries[k] = "undefined" <=> k \notin BodyKeys
          /\ \A i \in DOMAIN built.options.body.json :
                built.options.body.json[i].json
                   = JsonToken(built.body.entries[built.options.body.json[i].key])

C17_Witness ==
    /\ built.pc = "fetching" /\ built.method = "POST"
    /\ built.qs = Mapping(<<"empty">>) /\ built.url.query = <<>>
    /\ built.body = Mapping(<<"null">>)
    /\ built.options.body = [attached |-> TRUE,
                             json |-> <<[key |-> 1, json |-> "null"]>>]

\* C18: a request whose method is GET or DELETE hands no body to fetch,
\* whatever body mapping it is given; a request with any other method hands
\* over a body exactly when the body mapping has a key.
C18_BodyOnlyOutsideGetDelete ==
    built.pc = "fetching" =>
       IF toUpperCase(built.method) \in {"GET", "DELETE"}
       THEN built.options.body = NoBody
       ELSE built.options.body.attached
               <=> (built.body.given /\ Len(built.body.entries) > 0)

C18_Witness ==
    /\ built.pc = "fetching" /\ built.method = "DELETE"
    /\ built.body = Mapping(<<"text", "zero">>)
    /\ built.options.body = NoBody

\* the URL has two slashes in a row where the base URL meets the endpoint
DoubledSlash ==
    LET n == Len(built.url.path) - Len(built.endpoint) IN
    n >= 1 /\ built.url.path[n] = "/" /\ built.url.path[n + 1] = "/"

EndsWithSlash(url) == url # <<>> /\ url[Len(url)] = "/"

\* C19 as stated: for a client built from an API URL that ends with a slash
\* and an endpoint that starts with a slash, the URL handed to fetch has no
\* doubled slash between the base URL and the endpoint.
C19_NoDoubledSlash ==
    (/\ built.pc = "fetching"
     /\ EndsWithSlash(built.apiUrl)
     /\ Head(built.endpoint) = "/") => ~DoubledSlash

\* C19, amended: for a client built from an API URL that ends with exactly
\* one slash and an endpoint that starts with a slash, the URL handed to
\* fetch has no doubled slash between the base URL and the endpoint; one
\* slash is taken off the API URL, so an API URL that ends with two or more
\* slashes leaves a doubled slash.
C19_NoDoubledSlashAfterOne ==
    (/\ built.pc = "fetching"
     /\ EndsWithSlash(built.apiUrl)
     /\ Head(built.endpoint) = "/") =>
        /\ built.url.path
              = SubSeq(built.apiUrl, 1, Len(built.apiUrl) - 1) \o built.endpoint
        /\ DoubledSlash <=> EndsWithSlash(built.baseUrl)
        /\ ~EndsWithSlash(SubSeq(built.apiUrl, 1, Len(built.apiUrl) - 1))
              => ~DoubledSlash

C19_Witness ==
    /\ built.pc = "fetching"
    /\ built.apiUrl = <<"https://crm", "/", "api", "/">>
    /\ built.url.path = <<"https://crm", "/", "api", "/", "rest", "/", "companies">>

----------------------------------------------------------------------------
(* SpecClients: several TwentyCrmClient instances and several request()    *)
(* calls on them at once.  built[c] is the c-th instance, wire[i] the i-th *)
(* request() call: the instance it was invoked on, what it handed to       *)
(* fetch, and whether its fetch has settled.                               *)

\* the fields of an instance after its constructor
Instance(credentials) ==
    [baseUrl |-> ReplaceTrailingSlash(credentials.apiUrl),
     apiKey |-> credentials.apiKey]

\* an instance whose fields live in one place shared by all instances
ThisShared(instances, c) == instances[Len(instances)]

\* `this` inside a method invoked on the c-th instance
This(instances, c) == instances[c]

\* the call frame of request(method, endpoint) on the c-th instance, at its
\* await of fetch
Frame(instances, c, method, endpoint) ==
    [client |-> c, pc |-> "fetching",
     url |-> Url(This(instances, c).baseUrl, endpoint, Undefined),
     options |-> Options(method, This(instances, c).apiKey, Undefined)]

CredentialsTried ==
    {[apiUrl |-> <<"https://crm">>, apiKey |-> "key"],
     [apiUrl |-> <<"https://other", "/">>, apiKey |-> "other-key"]}

InitClients ==
    /\ \E credentials \in CredentialsTried : built = <<Instance(credentials)>>
    /\ wire = <<>>
    /\ call = NoCall /\ delay = -1 /\ tool = Idle /\ runs = Idle
    /\ page = Idle /\ search = Idle /\ find = Idle /\ bulk = Idle

\* new TwentyCrmClient(credentials), while calls may be under way
ClientsConstruct ==
    /\ Len(built) < MaxClients
    /\ \E credentials \in CredentialsTried :
          built' = Append(built, Instance(credentials))
    /\ UNCHANGED <<call, wire, page, search, find, bulk, delay, tool, runs>>

\* request() is invoked on an instance and runs to its await of fetch
ClientsFetch ==
    /\ Len(wire) < MaxCalls
    /\ \E c \in DOMAIN built, endpoint \in Endpoints :
          wire' = Append(wire, Frame(built, c, "GET", endpoint))
    /\ UNCHANGED <<call, page, search, find, bulk, delay, built, tool, runs>>

\* the fetch of one call settles and the call ends
ClientsSettle ==
    /\ \E i \in DOMAIN wire :
          /\ wire[i].pc = "fetching"
          /\ wire' = [wire EXCEPT ![i].pc = "settled"]
    /\ UNCHANGED <<call, page, search, find, bulk, delay, built, tool, runs>>

NextClients == ClientsConstruct \/ ClientsFetch \/ ClientsSettle

SpecClients == InitClients /\ [][NextClients]_vars

\* every request carries the bearer token of the instance it was invoked
\* on, and its URL starts with that instance's base URL
OwnCredentials ==
    \A i \in DOMAIN wire :
       LET own == built[wire[i].client] IN
       /\ wire[i].options.headers.Authorization = <<"Bearer", own.apiKey>>
       /\ wire[i].options.headers.ContentType = "application/json"
       /\ SubSeq(wire[i].url.path, 1, Len(own.baseUrl)) = own.baseUrl

\* an instance keeps its fields
InstancesKept ==
    \A c \in DOMAIN built : c \in DOMAIN built' /\ built'[c] = built[c]

\* C22: in every interleaving of request() calls and constructions on one
\* or several instances, each HTTP request carries the bearer token and the
\* base URL of the instance it was invoked on, and no step changes the base
\* URL or the API key of an instance once it is constructed.
C22_OwnCredentialsAlways == [](OwnCredentials) /\ [][InstancesKept]_vars

C22_Witness ==
    /\ Len(built) = 2 /\ built[1] # built[2]
    /\ Len(wire) = 3
    /\ wire[1].client = 1 /\ wire[1].pc = "fetching"
    /\ wire[2].client = 2 /\ wire[2].pc = "fetching"
    /\ wire[3].client = 1
    /\ wire[2].options.headers.Authorization # wire[1].options.headers.Authorization

----------------------------------------------------------------------------
(* SpecTools: one run of a tool handler (src/src/tools) against the        *)
(* client.  tool.calls is the log of the client calls the handler made,    *)
(* tool.step the client call it awaits, tool.result the envelope it        *)
(* returned.  A lookup runs in `find` and a bulk operation in `bulk`, as   *)
(* in SpecFind and SpecBulk; a request() call is answered by the transport *)
(* in one step.                                                            *)

\* the message string of an error: the text it is made of and the context
\* put before it
MessageOf(error) ==
    [kind |-> error.kind, text |-> error.message, ctx |-> error.ctx]

\* { content: [{ type: "text", text: JSON.stringify(value, null, 2) }] }
TextResult(value) ==
    [isError |-> FALSE, label |-> "", message |-> MessageOf(NoError),
     json |-> value]

\* { content: [{ type: "text", text: `${label}: ${error.message}` }],
\*   isError: true }
ErrorResult(label, error) ==
    [isError |-> TRUE, label |-> label, message |-> MessageOf(error),
     json |-> <<>>]

\* { content: [{ type: "text", text: `Error: ${text}` }], isError: true }
ValidationResult(text) ==
    [isError |-> TRUE, label |-> "Error",
     message |-> [kind |-> "validation", text |-> text, ctx |-> NoCtx],
     json |-> <<>>]

NoResult == TextResult(<<>>)

\* the words each handler's catch block puts before the message
Label(name) ==
    CASE name = "create_company" -> "Error creating company"
      [] name = "list_companies" -> "Error listing companies"
      [] name = "upsert_company" -> "Error upserting company"
      [] name = "upsert_person" -> "Error upserting person"
      [] name = "bulk_create" -> "Error in bulk create"
      [] name = "bulk_update" -> "Error in bulk update"

\* the collection a handler writes to and the resource it looks up
Collection(name) ==
    IF name = "upsert_person" THEN <<"/rest", "people">>
    ELSE <<"/rest", "companies">>
LookupResource(name) ==
    IF name = "upsert_person" THEN "person" ELSE "company"

\* one call of a client method, as the handler sees it
ClientCall(method, req) ==
    [method |-> method, req |-> req, outcome |-> "pending", error |-> NoError]

\* the handler awaits a client call
Await(t, step, clientCall) ==
    [t EXCEPT !.pc = "awaiting", !.step = step,
              !.calls = Append(@, clientCall)]

\* the awaited client call has returned or raised
Settle(t, r) ==
    [t EXCEPT !.calls[Len(t.calls)] =
        [@ EXCEPT !.outcome = IF r.threw THEN "raised" ELSE "returned",
                  !.error = r.error]]

\* return { content: ... } from the try block
Return(t, result) ==
    [t EXCEPT !.pc = "done", !.step = "none", !.result = result]

\* catch (error) { return { content: ..., isError: true } }
Catch(t, error) == Return(t, ErrorResult(Label(t.name), error))


\* the items argument of a bulk tool: a text that is not JSON, the JSON of
\* a value that is not an array, or the JSON of the array `elements`
ItemsText(json, elements) == [json |-> json, elements |-> elements]

\* an element of the array: an object with a name and an id (0: the id is
\* absent, null, 0 or ""), or the value null
ToolItem(id, name) == [id |-> id, name |-> name, isNull |-> FALSE]
NullElement == [id |-> 0, name |-> 0, isNull |-> TRUE]

SyntaxError == Err("syntax", 0, "", FALSE, NoCtx)

\* JSON.parse(args.items)
JSON_parse(text) ==
    IF text.json = "invalid" THEN Threw(SyntaxError)
    ELSE [threw |-> FALSE, value |-> text, error |-> NoError]

\* Array.isArray(items)
Array_isArray(value) == value.json = "array"

\* reading item.id throws a TypeError exactly when item is null
ReadsId(items) == \A k \in DOMAIN items : ~items[k].isNull

\* an id check that finds nothing missing
missingIdsNone(items) == <<>>

\* items.filter((item) => !item.id)
missingIds(items) ==
    LET NoId(item) == item.id = 0 IN SelectSeq(items, NoId)

\* the bulk_create and bulk_update handlers up to their first await
BulkTool(t, operation) ==
    LET parsed == JSON_parse(t.args.items) IN
    IF parsed.threw THEN Catch(t, parsed.error)
    ELSE IF ~Array_isArray(parsed.value)
    THEN Return(t, ValidationResult("items must be a JSON array"))
    ELSE IF operation = "create"
    THEN Await(t, "bulk", ClientCall("bulkOperation", NoReq))
    ELSE IF ~ReadsId(parsed.value.elements) THEN Catch(t, TypeError)
    ELSE IF Len(missingIds(parsed.value.elements)) > 0
    THEN Return(t, ValidationResult("all items must have an id field"))
    ELSE Await(t, "bulk", ClientCall("bulkOperation", NoReq))

\* an upsert that creates whatever the lookup found
UpsertWriteAlwaysCreates(t, existing) ==
    Await([t EXCEPT !.action = "created"], "request",
          ClientCall("request",
                     Req("POST", Collection(t.name), 0, <<t.args.fields>>,
                         <<>>)))

\* if (existing) { PUT `${collection}/${existing.id}`; action = "updated" }
\* else { POST collection; action = "created" }
\* existing is <<>> for null; the body is the call's fields, taken as they
\* are after cleanObject and the field transform
UpsertWrite(t, existing) ==
    IF existing # <<>>
    THEN Await([t EXCEPT !.action = "updated"], "request",
               ClientCall("request",
                          Req("PUT", Collection(t.name), existing[1].id,
                              <<t.args.fields>>, <<>>)))
    ELSE Await([t EXCEPT !.action = "created"], "request",
               ClientCall("request",
                          Req("POST", Collection(t.name), 0,
                              <<t.args.fields>>, <<>>)))

\* qs.limit = args.limit || 20, with 0 for an absent limit
ListLimit(limit) == IF limit # 0 THEN limit ELSE 20

\* a handler from its call to its first await, or to its return
StartTool(name, args) ==
    LET t == [pc |-> "running", name |-> name, args |-> args,
              step |-> "none", calls |-> <<>>, action |-> "",
              result |-> NoResult] IN
    CASE name = "create_company" ->
            Await(t, "request",
                  ClientCall("request",
                             Req("POST", Collection(name), 0,
                                 <<args.fields>>, <<>>)))
      [] name = "list_companies" ->
            IF args.returnAll
            THEN Await(t, "requestAllItems",
                       ClientCall("requestAllItems",
                                  Req("GET", Collection(name), 0, <<>>,
                                      <<>>)))
            ELSE Await(t, "request",
                       ClientCall("request",
                                  Req("GET", Collection(name), 0, <<>>,
                                      [limit |-> ListLimit(args.limit)])))
      [] name \in {"upsert_company", "upsert_person"} ->
            Await(t, "lookup", ClientCall("findRecordByField", NoReq))
      [] name = "bulk_create" -> BulkTool(t, "create")
      [] name = "bulk_update" -> BulkTool(t, "update")

\* response.data || response
DataOrResponse(p) ==
    IF p.shape = "dataArr" THEN p.rows
    ELSE IF p.shape = "dataObj" THEN p.rows[1]
    ELSE p

\* the handler after its client.request call has settled
AfterRequest(t0, r) ==
    LET t == Settle(t0, r) IN
    IF r.threw THEN Catch(t, r.error)
    ELSE CASE t.name = "create_company" -> Return(t, TextResult(r.value))
           [] t.name = "list_companies" ->
                 IF ReadsData(r.value)
                 THEN Return(t, TextResult(DataOrResponse(r.value)))
                 ELSE Catch(t, TypeError)
           [] t.name \in {"upsert_company", "upsert_person"} ->
                 Return(t, TextResult([result |-> r.value,
                                       _upsertAction |-> t.action]))

\* the list handler after client.requestAllItems has settled
AfterAllItems(t0, r) ==
    LET t == Settle(t0, r) IN
    IF r.threw THEN Catch(t, r.error) ELSE Return(t, TextResult(r.value))

\* the upsert handler after client.findRecordByField has settled
AfterLookup(t0, f) ==
    IF f.pc = "raised"
    THEN Catch(Settle(t0, Threw(f.c.error)), f.c.error)
    ELSE UpsertWrite(Settle(t0, Returned(NoPayload)), f.result)

\* the bulk handler after client.bulkOperation has settled
AfterBulk(t0, b) ==
    IF b.pc = "raised"
    THEN Catch(Settle(t0, Threw(TypeError)), TypeError)
    ELSE Return(Settle(t0, Returned(NoPayload)), TextResult(b.results))


ToolNames ==
    {"create_company", "list_companies", "upsert_company", "upsert_person",
     "bulk_create", "bulk_update"}

\* the k-th element of an items array, by its kind
Element(kind, k) ==
    CASE kind = "withId" -> ToolItem(k, k)
      [] kind = "noId" -> ToolItem(0, k)
      [] kind = "null" -> NullElement

ItemLists ==
    {[k \in DOMAIN kinds |-> Element(kinds[k], k)] :
        kinds \in UNION {[1..n -> {"withId", "noId", "null"}] :
                            n \in 0..MaxToolItems}}

ItemsTexts ==
    {ItemsText("invalid", <<>>), ItemsText("object", <<>>),
     ItemsText("null", <<>>)}
    \cup {ItemsText("array", elements) : elements \in ItemLists}

\* the arguments tried for each tool
ToolArgs(name) ==
    CASE name = "create_company" -> {[fields |-> [name |-> "Acme"]]}
      [] name = "list_companies" ->
            {[returnAll |-> r, limit |-> l] :
                r \in BOOLEAN, l \in {0, MaxHits}}
      [] name \in {"upsert_company", "upsert_person"} ->
            {[matchField |-> "name", matchValue |-> "Acme",
              fields |-> [name |-> "Acme"]]}
      [] name \in {"bulk_create", "bulk_update"} ->
            {[resourceType |-> "company", items |-> text] :
                text \in ItemsTexts}

\* the transport's answers to a request() call of a handler
ToolResponses ==
    {OkJson(Payload("dataObj", <<Row("crm", 1)>>)),
     OkJson(Payload("dataArr", <<Row("crm", 1), Row("crm", 2)>>)),
     OkJson(Payload("dataArr", <<>>)),
     OkJson(Payload("null", <<>>)), OkEmpty, OkInvalid,
     HttpError(400), HttpError(503), NetworkFailure("ECONNRESET")}

\* what a requestAllItems call comes to: the rows it gathered, or the error
\* of the request that failed
AllItemsOutcomes ==
    {Returned(Payload("bareArr", <<>>)),
     Returned(Payload("bareArr", <<Row("crm", 1), Row("crm", 2)>>)),
     Threw(WrappedError(StatusError(HttpError(400)), 0, DefaultMaxRetries)),
     Threw(WrappedError(StatusError(HttpError(503)), DefaultMaxRetries,
                        DefaultMaxRetries))}

\* the findRecordByField call of an upsert handler
Lookup(t) ==
    FindCall([pc |-> "running", phase |-> "filter",
              resource |-> LookupResource(t.name),
              fieldName |-> t.args.matchField,
              fieldValue |-> t.args.matchValue, c |-> NoCall,
              primary |-> NoCall, requests |-> <<>>, result |-> <<>>,
              faults |-> 0],
             FilterQs(t.args.matchField, t.args.matchValue))

\* the bulkOperation call of a bulk handler
Bulk(t) ==
    BulkLoop([pc |-> "running",
              operation |-> IF t.name = "bulk_create" THEN "create"
                            ELSE "update",
              resource |-> t.args.resourceType,
              items |-> JSON_parse(t.args.items).value.elements,
              i |-> 0, batch |-> <<>>, results |-> <<>>, faults |-> 0], 0)

InitTools ==
    /\ \E name \in ToolNames : \E args \in ToolArgs(name) :
          tool = StartTool(name, args)
    /\ find = (IF tool.step = "lookup" THEN Lookup(tool) ELSE Idle)
    /\ bulk = (IF tool.step = "bulk" THEN Bulk(tool) ELSE Idle)
    /\ wire = (IF tool.step = "bulk"
               THEN [k \in 1..Len(bulk.items) |-> NoResponse] ELSE <<>>)
    /\ call = NoCall /\ page = Idle /\ search = Idle
    /\ delay = -1 /\ built = Idle /\ runs = Idle

\* the handler's client.request call is answered
ToolsRequest ==
    /\ tool.pc = "awaiting" /\ tool.step = "request"
    /\ \E resp \in ToolResponses : tool' = AfterRequest(tool, request(resp))
    /\ UNCHANGED <<call, wire, page, search, find, bulk, delay, built, runs>>

\* the handler's client.requestAllItems call settles
ToolsAllItems ==
    /\ tool.pc = "awaiting" /\ tool.step = "requestAllItems"
    /\ \E r \in AllItemsOutcomes : tool' = AfterAllItems(tool, r)
    /\ UNCHANGED <<call, wire, page, search, find, bulk, delay, built, runs>>

\* the handler's client.findRecordByField call has settled
ToolsLookup ==
    /\ tool.pc = "awaiting" /\ tool.step = "lookup"
    /\ find.pc \in {"returned", "raised"}
    /\ tool' = AfterLookup(tool, find)
    /\ UNCHANGED <<call, wire, page, search, find, bulk, delay, built, runs>>

\* the handler's client.bulkOperation call has settled
ToolsBulk ==
    /\ tool.pc = "awaiting" /\ tool.step = "bulk"
    /\ bulk.pc \in {"returned", "raised"}
    /\ tool' = AfterBulk(tool, bulk)
    /\ UNCHANGED <<call, wire, page, search, find, bulk, delay, built, runs>>

NextTools ==
    \/ NextFind \/ NextBulk
    \/ ToolsRequest \/ ToolsAllItems \/ ToolsLookup \/ ToolsBulk

SpecTools == InitTools /\ [][NextTools]_vars


Upserts == {"upsert_company", "upsert_person"}

\* the writes of the handler: its client.request calls
Writes ==
    LET IsWrite(clientCall) == clientCall.method = "request" IN
    SelectSeq(tool.calls, IsWrite)

LookupReturned == find.pc = "returned"

\* C25: an upsert handler issues no write while the lookup runs and exactly
\* one once it has returned: a PUT to collection/id of the found record,
\* with _upsertAction "updated", when findRecordByField returned a record,
\* and a POST to the collection, with _upsertAction "created", when it
\* returned none; it never issues a second write.
C25_OneWriteByLookup ==
    tool.name \in Upserts =>
        /\ tool.calls[1].method = "findRecordByField"
        /\ find.resource = (IF tool.name = "upsert_company" THEN "company"
                            ELSE "person")
        /\ Len(Writes) <= 1
        /\ tool.step = "lookup" => Writes = <<>>
        /\ ~LookupReturned => Writes = <<>>
        /\ tool.step # "lookup" =>
              /\ LookupReturned /\ Len(Writes) = 1 /\ Len(tool.calls) = 2
              /\ Writes[1].req.endpoint =
                    (IF tool.name = "upsert_company"
                     THEN <<"/rest", "companies">> ELSE <<"/rest", "people">>)
              /\ IF find.result # <<>>
                 THEN /\ Writes[1].req.method = "PUT"
                      /\ Writes[1].req.id = find.result[1].id
                      /\ tool.action = "updated"
                 ELSE /\ Writes[1].req.method = "POST"
                      /\ Writes[1].req.id = 0
                      /\ tool.action = "created"
        /\ (tool.pc = "done" /\ ~tool.result.isError) =>
              tool.result.json._upsertAction =
                 (IF find.result # <<>> THEN "updated" ELSE "created")

C25_Witness ==
    /\ tool.name = "upsert_person" /\ tool.pc = "done"
    /\ ~tool.result.isError /\ tool.result.json._upsertAction = "updated"
    /\ find.result # <<>> /\ find.result[1].id = 2 /\ Len(find.requests) = 2
    /\ Writes[1].req.method = "PUT" /\ Writes[1].req.id = 2


LacksId(item) == item.isNull \/ item.id = 0

BulkOperationCalled ==
    \/ bulk # Idle
    \/ \E k \in DOMAIN tool.calls : tool.calls[k].method = "bulkOperation"

\* C26: bulk_update returns an error result and never calls bulkOperation
\* when an element of its items array lacks an id, whatever the other
\* elements are; bulk_create and bulk_update return an error result and
\* make no client call when the items argument is not JSON or not the JSON
\* of an array.
C26_RejectedBeforeAnyCall ==
    LET items == tool.args.items IN
    /\ (/\ tool.name = "bulk_update" /\ items.json = "array"
        /\ \E k \in DOMAIN items.elements : LacksId(items.elements[k]))
          => (/\ tool.pc = "done" /\ tool.result.isError
              /\ tool.calls = <<>> /\ ~BulkOperationCalled
              /\ \A n \in DOMAIN wire : wire[n] = NoResponse)
    /\ (tool.name \in {"bulk_create", "bulk_update"} /\ items.json # "array")
          => (/\ tool.pc = "done" /\ tool.result.isError
              /\ tool.calls = <<>> /\ ~BulkOperationCalled)

C26_Witness ==
    /\ tool.name = "bulk_update" /\ tool.pc = "done" /\ tool.result.isError
    /\ tool.args.items.json = "array"
    /\ tool.args.items.elements = <<ToolItem(1, 1), ToolItem(0, 2)>>
    /\ tool.calls = <<>>


ClientCallRaised ==
    \E k \in DOMAIN tool.calls : tool.calls[k].outcome = "raised"
ClientCallsSucceeded ==
    /\ tool.calls # <<>>
    /\ \A k \in DOMAIN tool.calls : tool.calls[k].outcome = "returned"

\* C27: a tool handler never raises; when the client call it made raised,
\* it returns a result with isError whose text holds the error's message,
\* and when its client calls succeeded it returns a result without isError.
C27_EnvelopeFollowsClientCall ==
    /\ tool.pc # "raised"
    /\ ClientCallRaised =>
          /\ tool.pc = "done" /\ tool.result.isError
          /\ tool.result.label = Label(tool.name)
          /\ tool.result.message =
                MessageOf(tool.calls[Len(tool.calls)].error)
    /\ ClientCallsSucceeded => (tool.pc = "done" /\ ~tool.result.isError)

(***************************************************************************)
(* SpecRuns: two requestAllItems runs given the same query mapping object  *)
(***************************************************************************)

\* the objects of the heap: the caller's mapping, and one per run
CallerObject == 0
RunIds == {1, 2}

\* a run whose paginatedQs is the caller's object itself
SameObject(i) == CallerObject

\* const paginatedQs = { ...qs }: a new object for the run
Spread(i) == i

\* an object of the heap; its keys limit and offset may be absent
\* (limit 0, offset <<>>)
NoObject == CallerQs(0, <<>>)

\* the mapping as the round's fetch reads it
Sent(obj) == PageQs(obj.limit, obj.offset[1])

NewRun == [pc |-> "idle", ref |-> CallerObject, sent |-> <<>>,
           returnData |-> <<>>]

InitRuns ==
    /\ \E qsLimit \in 0..MaxLimit, qsOffset \in {<<>>, <<MaxLimit>>} :
          runs = [given |-> CallerQs(qsLimit, qsOffset),
                  heap |-> [o \in {CallerObject} \cup RunIds |->
                               IF o = CallerObject
                               THEN CallerQs(qsLimit, qsOffset) ELSE NoObject],
                  r |-> [i \in RunIds |-> NewRun]]
    /\ call = NoCall /\ wire = <<>> /\ page = Idle /\ search = Idle
    /\ find = Idle /\ bulk = Idle /\ delay = -1 /\ built = Idle /\ tool = Idle

\* requestAllItems(method, endpoint, body, qs) up to its first await
RunStart(i) ==
    /\ runs.r[i].pc = "idle"
    /\ LET ref == Spread(i)
           qs == PaginatedQs(runs.heap[CallerObject])
           obj == CallerQs(qs.limit, <<qs.offset>>) IN
       runs' = [runs EXCEPT !.heap[ref] = obj,
                            !.r[i] = [@ EXCEPT !.pc = "awaiting", !.ref = ref,
                                               !.sent = <<Sent(obj)>>]]
    /\ UNCHANGED <<call, wire, page, search, find, bulk, delay, built, tool>>

\* the round's requestWithRetry call returns: the rest of the loop body
RunAnswer(i) ==
    /\ runs.r[i].pc = "awaiting"
    /\ Len(runs.r[i].sent) <= MaxRounds
    /\ LET ref == runs.r[i].ref
           asked == runs.r[i].sent[Len(runs.r[i].sent)] IN
       \E k \in PageLengths(asked.limit) :
          LET resp == Payload("dataArr", Rows(asked.offset, k))
              obj == [runs.heap[ref] EXCEPT
                         !.offset = <<NextOffset(@[1], runs.heap[ref].limit)>>]
          IN
          runs' = [runs EXCEPT
                      !.heap[ref] = obj,
                      !.r[i] = [@ EXCEPT
                          !.returnData = @ \o ItemsOf(resp),
                          !.sent = IF Continue(resp, obj.limit)
                                   THEN @ \o <<Sent(obj)>> ELSE @,
                          !.pc = IF Continue(resp, obj.limit)
                                 THEN "awaiting" ELSE "returned"]]
    /\ UNCHANGED <<call, wire, page, search, find, bulk, delay, built, tool>>

\* the round's requestWithRetry call raises
RunFails(i) ==
    /\ runs.r[i].pc = "awaiting"
    /\ runs' = [runs EXCEPT !.r[i].pc = "raised"]
    /\ UNCHANGED <<call, wire, page, search, find, bulk, delay, built, tool>>

NextRuns == \E i \in RunIds : RunStart(i) \/ RunAnswer(i) \/ RunFails(i)

SpecRuns == InitRuns /\ [][NextRuns]_vars

\* C39: requestAllItems leaves the caller's query mapping as it was given
\* (no limit or offset key added or changed), and each of two runs given the
\* same mapping object sends the offsets 0, L, 2L, ... with the limit L,
\* whatever the other run has done.
C39_CallerMappingUntouched ==
    /\ runs.heap[CallerObject] = runs.given
    /\ \A i \in RunIds :
          \A k \in DOMAIN runs.r[i].sent :
             runs.r[i].sent[k] =
                PageQs(EffectiveLimit(runs.given.limit),
                       (k - 1) * EffectiveLimit(runs.given.limit))

C39_Witness ==
    /\ runs.given = CallerQs(0, <<MaxLimit>>)
    /\ runs.r[1].pc = "awaiting" /\ Len(runs.r[1].sent) = 3
    /\ runs.r[2].pc = "awaiting" /\ Len(runs.r[2].sent) = 2
    /\ Len(runs.r[1].returnData) = 2 * DefaultLimit

====
